---- MODULE Spec2Model ----
(***************************************************************************)
(* State-machine model of the custodial staking backend: the ledger and    *)
(* the BalanceCache projection, the withdrawal workflow with its payout    *)
(* worker, the deposit monitor and the staking / reward engine.            *)
(*                                                                         *)
(* Amounts are integers in units of the minimum fee (0.0001 of the asset); *)
(* the model keeps one asset on one chain, so a (user, asset, chain) tuple *)
(* is identified by its user.  A database transaction run through          *)
(* PrismaService.executeInTransaction (SERIALIZABLE) or prisma.$transaction*)
(* is one atomic step that either commits all of its writes or none; every *)
(* read made outside such a transaction is a separate, earlier step.       *)
(***************************************************************************)
EXTENDS Integers, Sequences, FiniteSets, Bags, TLC

\* ------------------------------------------------------------------ bounds
MaxRequests == 2
MaxCalls == 2
MaxBlocks == 2
MaxAddrCalls == 3
MaxSubmissions == 3
MaxSchedules == 3
InitialApr == 1
MaxJobs == 2
InitialDeposit == 4
ConfirmationsRequired == 2
MaxTransfers == 2
MaxMonitors == 2
MaxHead == 3
MaxPositions == 1
MaxTime == 3
RatePerTick == 1
CooldownTicks == 1
LockTicks == 1
PoolCapacity == 3
MaxStakeCalls == 2
MaxStakes == 2
MaxSessions == 4
MaxRefreshCalls == 2
MaxLoginCalls == 2
MaxTfaCalls == 2
MaxSecrets == 2

\* ------------------------------------------------------- program constants
MinFee == 1
FeePerMille == 1
ProcessPayoutAttempts == 3
CheckPayoutAttempts == 20
NewAddressScore == 30
CooldownAddressScore == 50
DefaultScanBack == 1000
MaxScanBack == 10000
RecoveryCodeCount == 10

Users == {"u1"}
Keys == {"k1", "k2"}
Dests == {"d1"}
Amounts == {1, 2, 3}

ReqIds == 1..MaxRequests
Callers == 1..MaxCalls
Monitors == 1..MaxMonitors
TransferValues == {0, 2}
StakeAmounts == {1, 2}

VARIABLES
    \* ledger + projection
    ledger,         \* LedgerEntry rows, in insertion (createdAt) order
    cache,          \* BalanceCache row of each user
    \* withdrawal workflow
    requests,       \* WithdrawalRequest rows; the id of a row is its index
    payoutTx,       \* PayoutTx row of each request (status "NONE": no row)
    whitelist,      \* AddressWhitelist rows, as <<user, address>>
    calls,          \* in-flight / finished createRequest calls
    approveTx,      \* requests whose approveRequest transaction is open
    payoutQueue,    \* jobs of the payout-processor queue
    worker,         \* the payout worker (concurrency 1): its job and position
    \* deposit pipeline
    transfers,      \* ERC-20 Transfer logs to a registered deposit address
    deposits,       \* Deposit rows; the id of a row is its index
    lastScanned,    \* SystemConfig lastScannedBlock (-1: no row)
    monitors,       \* deposit-monitor jobs running side by side
    confCall,       \* a DepositsService.updateConfirmations call
    \* staking
    now,            \* wall clock, in ticks
    pool,           \* the Pool row
    positions,      \* StakePosition rows; the id of a row is its index
    rewardJob,      \* the reward-calculator job (concurrency 1)
    stakeCalls,     \* in-flight / finished createStake calls
    unstakeResp,    \* the position and the outcome of the last unstake call
    \* authentication
    userRows,       \* User rows: role and twoFactorEnabled
    secrets,        \* TwoFactorSecret row of each user
    nextSecret,     \* the next secret authenticator.generateSecret returns
    recoveryCodes,  \* number of RecoveryCode rows of each user
    sessions,       \* Session rows; the id of a row is its index
    refreshCalls,   \* in-flight / finished refresh calls
    loginCalls,     \* in-flight / finished login calls
    tfaCalls,       \* in-flight 2fa/setup, 2fa/verify and 2fa/disable calls
    lastAccess,     \* the last JwtStrategy.validate and its outcome
    guardCall,      \* the last RolesGuard.canActivate and its outcome
    \* deposit addresses
    depositAddresses, \* DepositAddress rows of the chain; the id of a row is its index
    addrCalls,      \* in-flight / finished getOrCreateDepositAddress calls
    \* pool APR
    aprSchedules,   \* AprSchedule rows of the pool, in insertion order
    poolApr,        \* Pool.currentApr
    \* chain
    head,           \* current block number
    broadcasts,     \* transfers signed and broadcast by the payout worker
    \* history
    everApproved    \* requests that approveRequest moved to APPROVED

wdVars == <<requests, payoutTx, whitelist, calls, approveTx, payoutQueue, worker,
            broadcasts, everApproved>>
depVars == <<transfers, deposits, lastScanned, monitors, confCall>>
stkVars == <<now, pool, positions, rewardJob, stakeCalls, unstakeResp>>
authVars == <<userRows, secrets, nextSecret, recoveryCodes, sessions, refreshCalls, loginCalls,
              tfaCalls, lastAccess, guardCall>>
aprVars == <<aprSchedules, poolApr>>
auxVars == <<depositAddresses, addrCalls, aprVars>>
vars == <<ledger, cache, wdVars, depVars, stkVars, authVars, auxVars, head>>

\* ------------------------------------------------------------------ ledger

Entry(u, type, dir, amt, refType, refId) ==
    [userId |-> u, entryType |-> type, direction |-> dir, amount |-> amt,
     referenceType |-> refType, referenceId |-> refId]

RECURSIVE SumDir(_, _, _)
SumDir(l, u, dir) ==
    IF l = <<>> THEN 0
    ELSE (IF Head(l).userId = u /\ Head(l).direction = dir THEN Head(l).amount ELSE 0)
         + SumDir(Tail(l), u, dir)

\* LedgerService.calculateBalance: sum of credits minus sum of debits
calculateBalance(l, u) == SumDir(l, u, "CREDIT") - SumDir(l, u, "DEBIT")

\* the ledger entries of one user, the rows a transaction of that user reads
EntriesOf(l, u) == SelectSeq(l, LAMBDA e : e.userId = u)

\* LedgerService.createEntry accepts the entry (does not throw)
createEntryOk(l, u, dir, amt) ==
    /\ amt > 0
    /\ dir = "DEBIT" => calculateBalance(l, u) - amt >= 0

EmptyCache ==
    [exists |-> FALSE, available |-> 0, staked |-> 0, rewardsAccrued |-> 0,
     withdrawalsPending |-> 0]


\* ------------------------------------------------- withdrawal workflow: data

NoRow ==
    [userId |-> "", amount |-> 0, fee |-> 0, netAmount |-> 0,
     destinationAddress |-> "", status |-> "", idempotencyKey |-> "",
     fraudScore |-> 0, reviewedBy |-> ""]

NoResp == [kind |-> "none", code |-> "", id |-> 0, row |-> NoRow, message |-> FALSE]

ErrorResp(code) == [kind |-> "error", code |-> code, id |-> 0, row |-> NoRow, message |-> FALSE]

\* a WithdrawalRequest row returned to the caller; message: the response carries
\* the UI_COPY.WITHDRAWAL_DISCLAIMER field
RowResp(id, row, msg) == [kind |-> "ok", code |-> "", id |-> id, row |-> row, message |-> msg]

\* what a SERIALIZABLE transaction read when it took its snapshot
NoSnap == [cache |-> EmptyCache, ledger |-> <<>>]

IdleCall == [pc |-> "idle", userId |-> "", key |-> "", amount |-> 0, dest |-> "", resp |-> NoResp,
             snap |-> NoSnap]

NoPayoutTx == [status |-> "NONE", txHash |-> 0, attempts |-> 0]

IdleWorker == [pc |-> "idle", name |-> "", ref |-> 0, attemptsMade |-> 0, req |-> 0,
               txHash |-> 0, confirmations |-> 0, receiptStatus |-> 0]

\* a queued job; it is delayed (initial delay or retry backoff, 30 s and more) and
\* runs only once the chain has moved past the block it was queued at
Job(name, ref, attemptsMade, queuedAt) ==
    [name |-> name, ref |-> ref, attemptsMade |-> attemptsMade, queuedAt |-> queuedAt]

Exists(r) == r \in 1..Len(requests)

\* prisma.withdrawalRequest.findUnique({ where: { idempotencyKey } })
FindByKey(k) == {r \in 1..Len(requests) : requests[r].idempotencyKey = k}

\* fee = max(minFee, amount * 0.001), in units of the minimum fee
Fee(amount) ==
    IF amount * FeePerMille < MinFee * 1000 THEN MinFee ELSE (amount * FeePerMille) \div 1000

\* FraudService.checkNewAddress, the indicator that depends on the whitelist; the
\* 24 h cooldown of a whitelisted address has not elapsed within a run
checkNewAddress(wl, u, d) ==
    IF <<u, d>> \notin wl THEN NewAddressScore ELSE CooldownAddressScore

SetStatus(reqs, r, st) == [reqs EXCEPT ![r].status = st]

\* ------------------------------------------------ BalanceService operations
\* each returns the BalanceCache row after its balanceCache.update / upsert

reserveCache(c, amt) ==
    [c EXCEPT !.available = @ - amt, !.withdrawalsPending = @ + amt]

\* a release that clears the reserve without returning the amount to available
releaseCacheKeepingAvailable(c, amt) ==
    [c EXCEPT !.withdrawalsPending = @ - amt]

releaseCache(c, amt) ==
    [c EXCEPT !.available = @ + amt, !.withdrawalsPending = @ - amt]

finalizeCache(c, amt) ==
    [c EXCEPT !.withdrawalsPending = @ - amt]

\* BalanceService.finalizeWithdrawal passes new Decimal(0) to createEntry
WithdrawalPaidLedgerAmount(amt) == 0

\* ---------------------------------------------------------- createRequest

\* the idempotency lookup and the validation, which run before the transaction
CreateRequestCheck(c, u, k, a, d) ==
    /\ calls[c].pc = "idle"
    /\ IF c = 1 THEN TRUE ELSE calls[c - 1].pc # "idle"
    /\ LET found == FindByKey(k)
           args == [calls[c] EXCEPT !.userId = u, !.key = k, !.amount = a, !.dest = d]
           done(resp) == calls' = [calls EXCEPT ![c] =
                                     [IdleCall EXCEPT !.pc = "done", !.userId = u,
                                                      !.key = k, !.resp = resp]]
       IN  IF found # {}
           THEN LET r == CHOOSE x \in found : TRUE
                IN  done(RowResp(r, requests[r], FALSE))
           ELSE IF a - Fee(a) <= 0
           THEN done(ErrorResp("AMOUNT_TOO_SMALL"))
           ELSE calls' = [calls EXCEPT ![c] = [args EXCEPT !.pc = "tx"]]
    /\ UNCHANGED <<depVars, auxVars, authVars, stkVars, ledger, cache, requests, payoutTx, whitelist, approveTx, payoutQueue,
                   worker, head, broadcasts, everApproved>>

\* executeInTransaction opens the SERIALIZABLE transaction: its reads of the
\* BalanceCache row and of the ledger come from the snapshot taken here
CreateRequestBegin(c) ==
    /\ calls[c].pc = "tx"
    /\ calls' = [calls EXCEPT ![c].pc = "open",
                              ![c].snap = [cache |-> cache[calls[c].userId], ledger |-> ledger]]
    /\ UNCHANGED <<depVars, auxVars, authVars, stkVars, ledger, cache, requests, payoutTx, whitelist, approveTx,
                   payoutQueue, worker, head, broadcasts, everApproved>>

\* isolation level READ COMMITTED: a concurrent committed write is not detected
ReadCommittedConflict(snap, row, l) == FALSE

\* isolation level Serializable: a write to a row that another transaction
\* changed and committed after the snapshot fails with a serialization error
SerializationConflict(snap, row, l) == snap.cache # row \/ snap.ledger # l

\* the executeInTransaction body up to commit; addToWhitelist writes through
\* this.prisma, outside the transaction, so it is kept when the transaction
\* rolls back
CreateRequestTx(c) ==
    /\ calls[c].pc = "open"
    /\ LET u == calls[c].userId
           a == calls[c].amount
           d == calls[c].dest
           k == calls[c].key
           snap == calls[c].snap
           row == [userId |-> u, amount |-> a, fee |-> Fee(a), netAmount |-> a - Fee(a),
                   destinationAddress |-> d, status |-> "PENDING_REVIEW",
                   idempotencyKey |-> k, fraudScore |-> checkNewAddress(whitelist, u, d),
                   reviewedBy |-> ""]
           id == Len(requests) + 1
           finish(resp) == calls' = [calls EXCEPT ![c].pc = "done", ![c].resp = resp,
                                                  ![c].amount = 0, ![c].dest = "",
                                                  ![c].snap = NoSnap]
       IN  IF ~snap.cache.exists \/ snap.cache.available < a
           THEN /\ finish(ErrorResp("INSUFFICIENT_BALANCE"))
                /\ UNCHANGED <<ledger, cache, requests, whitelist>>
           ELSE /\ whitelist' = whitelist \cup {<<u, d>>}
                /\ IF FindByKey(k) # {}
                   THEN \* unique constraint on idempotencyKey: the insert throws
                        /\ finish(ErrorResp("UNIQUE_CONSTRAINT"))
                        /\ UNCHANGED <<ledger, cache, requests>>
                   ELSE IF ~createEntryOk(snap.ledger, u, "DEBIT", a)
                   THEN /\ finish(ErrorResp("LEDGER_REJECTED"))
                        /\ UNCHANGED <<ledger, cache, requests>>
                   ELSE IF SerializationConflict([snap EXCEPT !.ledger = EntriesOf(@, u)],
                                                 cache[u], EntriesOf(ledger, u))
                   THEN /\ finish(ErrorResp("SERIALIZATION_FAILURE"))
                        /\ UNCHANGED <<ledger, cache, requests>>
                   ELSE /\ id <= MaxRequests
                        /\ requests' = Append(requests, row)
                        /\ ledger' = Append(ledger,
                              Entry(u, "WITHDRAWAL_REQUESTED", "DEBIT", a,
                                    "WithdrawalRequest", id))
                        /\ cache' = [cache EXCEPT ![u] = reserveCache(@, a)]
                        /\ finish(RowResp(id, row, TRUE))
    /\ UNCHANGED <<depVars, auxVars, authVars, stkVars, payoutTx, approveTx, payoutQueue, worker, head,
                   broadcasts, everApproved>>

\* ------------------------------------------------------------ admin actions

\* approveRequest up to and including payoutQueue.add: the status update is
\* written inside the still-open transaction, the job is already in the queue
ApproveBegin(r) ==
    /\ Exists(r)
    /\ r \notin approveTx
    /\ requests[r].status = "PENDING_REVIEW"
    /\ BagCardinality(payoutQueue) < MaxJobs
    /\ approveTx' = approveTx \cup {r}
    /\ payoutQueue' = payoutQueue (+) SetToBag({Job("processPayout", r, 0, head)})
    /\ UNCHANGED <<depVars, auxVars, authVars, stkVars, ledger, cache, requests, payoutTx, whitelist, calls, worker,
                   head, broadcasts, everApproved>>

\* the transaction commits: the row becomes APPROVED
ApproveCommit(r) ==
    /\ r \in approveTx
    /\ approveTx' = approveTx \ {r}
    /\ requests' = [requests EXCEPT ![r].status = "APPROVED", ![r].reviewedBy = "admin"]
    /\ everApproved' = everApproved \cup {r}
    /\ UNCHANGED <<depVars, auxVars, authVars, stkVars, ledger, cache, payoutTx, whitelist, calls, payoutQueue, worker,
                   head, broadcasts>>

\* the transaction is rolled back after the enqueue (30 s timeout, lost connection)
ApproveAbort(r) ==
    /\ r \in approveTx
    /\ approveTx' = approveTx \ {r}
    /\ UNCHANGED <<depVars, auxVars, authVars, stkVars, ledger, cache, requests, payoutTx, whitelist, calls, payoutQueue,
                   worker, head, broadcasts, everApproved>>

\* approveRequest throws NotFound / BadRequest: nothing is written
ApproveRefused(r) ==
    /\ r \in ReqIds
    /\ r \notin approveTx
    /\ IF Exists(r) THEN requests[r].status # "PENDING_REVIEW" ELSE TRUE
    /\ UNCHANGED vars

\* rejectRequest: guard PENDING_REVIEW, set REJECTED, releaseReservedFunds
RejectRequest(r) ==
    /\ r \in ReqIds
    /\ r \notin approveTx
    /\ IF ~Exists(r)
       THEN UNCHANGED <<ledger, cache, requests>>
       ELSE IF requests[r].status # "PENDING_REVIEW"
       THEN UNCHANGED <<ledger, cache, requests>>
       ELSE LET u == requests[r].userId
                a == requests[r].amount
            IN  IF ~createEntryOk(ledger, u, "CREDIT", a)
                THEN UNCHANGED <<ledger, cache, requests>>
                ELSE /\ requests' = [requests EXCEPT ![r].status = "REJECTED",
                                                     ![r].reviewedBy = "admin"]
                     /\ ledger' = Append(ledger,
                           Entry(u, "WITHDRAWAL_REJECTED", "CREDIT", a,
                                 "WithdrawalRequest", r))
                     /\ cache' = [cache EXCEPT ![u] = releaseCache(@, a)]
    /\ UNCHANGED <<depVars, auxVars, authVars, stkVars, payoutTx, whitelist, calls, approveTx, payoutQueue, worker, head,
                   broadcasts, everApproved>>

\* markPaidManually: guard PENDING_REVIEW / APPROVED / FAILED, set PAID_MANUALLY,
\* finalizeWithdrawal; a throw of createEntry rolls the whole transaction back
MarkPaidManually(r) ==
    /\ r \in ReqIds
    /\ r \notin approveTx
    /\ IF ~Exists(r)
       THEN UNCHANGED <<ledger, cache, requests>>
       ELSE IF requests[r].status \notin {"PENDING_REVIEW", "APPROVED", "FAILED"}
       THEN UNCHANGED <<ledger, cache, requests>>
       ELSE LET u == requests[r].userId
                a == requests[r].amount
                paid == WithdrawalPaidLedgerAmount(a)
            IN  IF ~createEntryOk(ledger, u, "DEBIT", paid)
                THEN UNCHANGED <<ledger, cache, requests>>
                ELSE /\ requests' = [requests EXCEPT ![r].status = "PAID_MANUALLY",
                                                     ![r].reviewedBy = "admin"]
                     /\ ledger' = Append(ledger,
                           Entry(u, "WITHDRAWAL_PAID", "DEBIT", paid,
                                 "WithdrawalRequest", r))
                     /\ cache' = [cache EXCEPT ![u] = finalizeCache(@, a)]
    /\ UNCHANGED <<depVars, auxVars, authVars, stkVars, payoutTx, whitelist, calls, approveTx, payoutQueue, worker, head,
                   broadcasts, everApproved>>


\* ------------------------------------------------------------ reconciliation

RECURSIVE SumRequests(_, _, _, _)
\* withdrawalRequest.aggregate({ where: { userId, status: { in: S } }, _sum: amount })
SumRequests(reqs, u, S, n) ==
    IF n = 0 THEN 0
    ELSE SumRequests(reqs, u, S, n - 1)
         + (IF reqs[n].userId = u /\ reqs[n].status \in S THEN reqs[n].amount ELSE 0)

RECURSIVE SumActiveStakes(_, _, _, _)
\* stakePosition.aggregate({ where: { userId, status: 'ACTIVE' }, _sum: field })
SumActiveStakes(ps, u, field, n) ==
    IF n = 0 THEN 0
    ELSE SumActiveStakes(ps, u, field, n - 1)
         + (IF ps[n].userId = u /\ ps[n].status = "ACTIVE" THEN ps[n][field] ELSE 0)

\* the statuses LedgerService.reconcileBalance counts as pending withdrawals
ReconcilePendingStatuses ==
    {"PENDING_REVIEW", "APPROVED", "PROCESSING", "SENT", "CONFIRMING"}

\* LedgerService.reconcileBalance: the BalanceCache row is rewritten from the
\* ledger balance, the ACTIVE positions and the pending requests
ReconcileBalance(u) ==
    /\ LET balance == calculateBalance(ledger, u)
           stakedAmount == SumActiveStakes(positions, u, "amount", Len(positions))
           pendingWithdrawals == SumRequests(requests, u, ReconcilePendingStatuses,
                                             Len(requests))
           rewardsAccrued == SumActiveStakes(positions, u, "rewardsAccrued",
                                             Len(positions))
       IN  cache' = [cache EXCEPT ![u] =
                [exists |-> TRUE,
                 available |-> balance - stakedAmount - pendingWithdrawals,
                 staked |-> stakedAmount,
                 rewardsAccrued |-> rewardsAccrued,
                 withdrawalsPending |-> pendingWithdrawals]]
    /\ UNCHANGED <<ledger, wdVars, depVars, auxVars, stkVars, authVars, head>>

\* ------------------------------------------------------------ payout worker

\* BullMQ: a job whose handler throws is retried while attempts remain
Retry(q, name, ref, attemptsMade, attempts) ==
    IF attemptsMade + 1 < attempts
    THEN q (+) SetToBag({Job(name, ref, attemptsMade + 1, head)})
    ELSE q

\* the delay of a job has elapsed; a job added without delay runs at once
Runnable(j) == (j.attemptsMade = 0 /\ j.name = "processPayout") \/ head > j.queuedAt

\* a payout worker that also picks up requests still awaiting review
PayoutEligibleUnreviewed(status) == status \in {"APPROVED", "PENDING_REVIEW"}

\* processPayout: if (request.status !== 'APPROVED') return
PayoutEligible(status) == status = "APPROVED"

\* processPayout: load the request; skip unless APPROVED
PP_Start(j) ==
    /\ worker.pc = "idle"
    /\ j.name = "processPayout"
    /\ BagIn(j, payoutQueue)
    /\ Runnable(j)
    /\ LET q == payoutQueue (-) SetToBag({j})
       IN  IF ~Exists(j.ref)
           THEN /\ payoutQueue' = Retry(q, j.name, j.ref, j.attemptsMade, ProcessPayoutAttempts)
                /\ UNCHANGED worker
           ELSE IF ~PayoutEligible(requests[j.ref].status)
           THEN /\ payoutQueue' = q
                /\ UNCHANGED worker
           ELSE /\ payoutQueue' = q
                /\ worker' = [IdleWorker EXCEPT !.pc = "pp_loaded", !.name = j.name,
                                                !.ref = j.ref, !.req = j.ref,
                                                !.attemptsMade = j.attemptsMade]
    /\ UNCHANGED <<depVars, auxVars, authVars, stkVars, ledger, cache, requests, payoutTx, whitelist, calls, approveTx,
                   head, broadcasts, everApproved>>

\* withdrawalRequest.update({ status: 'PROCESSING' }), keyed by id only
PP_MarkProcessing ==
    /\ worker.pc = "pp_loaded"
    /\ requests' = SetStatus(requests, worker.req, "PROCESSING")
    /\ worker' = [worker EXCEPT !.pc = "pp_processing"]
    /\ UNCHANGED <<depVars, auxVars, authVars, stkVars, ledger, cache, payoutTx, whitelist, calls, approveTx, payoutQueue,
                   head, broadcasts, everApproved>>

\* wallet.sendTransaction / contract.transfer: the transfer is signed and broadcast
PP_Broadcast ==
    /\ worker.pc = "pp_processing"
    /\ broadcasts' = Append(broadcasts,
          [req |-> worker.req, mined |-> FALSE, ok |-> FALSE, block |-> 0])
    /\ worker' = [worker EXCEPT !.pc = "pp_broadcast", !.txHash = Len(broadcasts) + 1]
    /\ UNCHANGED <<depVars, auxVars, authVars, stkVars, ledger, cache, requests, payoutTx, whitelist, calls, approveTx,
                   payoutQueue, head, everApproved>>

\* payoutTx.create; withdrawalRequestId is unique, an existing row makes it throw
PP_RecordTx ==
    /\ worker.pc = "pp_broadcast"
    /\ IF payoutTx[worker.req].status # "NONE"
       THEN /\ worker' = [worker EXCEPT !.pc = "pp_catch"]
            /\ UNCHANGED payoutTx
       ELSE /\ payoutTx' = [payoutTx EXCEPT ![worker.req] =
                              [status |-> "SENT", txHash |-> worker.txHash, attempts |-> 0]]
            /\ worker' = [worker EXCEPT !.pc = "pp_recorded"]
    /\ UNCHANGED <<depVars, auxVars, authVars, stkVars, ledger, cache, requests, whitelist, calls, approveTx, payoutQueue,
                   head, broadcasts, everApproved>>

PP_MarkSent ==
    /\ worker.pc = "pp_recorded"
    /\ requests' = SetStatus(requests, worker.req, "SENT")
    /\ worker' = [worker EXCEPT !.pc = "pp_sent"]
    /\ UNCHANGED <<depVars, auxVars, authVars, stkVars, ledger, cache, payoutTx, whitelist, calls, approveTx, payoutQueue,
                   head, broadcasts, everApproved>>

\* queue.add(CHECK_PAYOUT_STATUS, { payoutTxId: txHash }); the job returns
PP_Enqueue ==
    /\ worker.pc = "pp_sent"
    /\ payoutQueue' = payoutQueue (+) SetToBag({Job("checkPayoutStatus", worker.txHash, 0, head)})
    /\ worker' = IdleWorker
    /\ UNCHANGED <<depVars, auxVars, authVars, stkVars, ledger, cache, requests, payoutTx, whitelist, calls, approveTx,
                   head, broadcasts, everApproved>>

\* any awaited step of the try block throws (no hot wallet, RPC, database or
\* queue error)
PP_Throw ==
    /\ worker.pc \in {"pp_processing", "pp_broadcast", "pp_recorded", "pp_sent"}
    /\ worker' = [worker EXCEPT !.pc = "pp_catch"]
    /\ UNCHANGED <<depVars, auxVars, authVars, stkVars, ledger, cache, requests, payoutTx, whitelist, calls, approveTx,
                   payoutQueue, head, broadcasts, everApproved>>

\* a catch block that puts the request back to APPROVED for the retry
CatchStatusApproved == "APPROVED"

\* the status the catch block of processPayout writes to the request
CatchStatus == "FAILED"

\* the catch block: payoutTx.upsert FAILED, request FAILED, rethrow
PP_Catch ==
    /\ worker.pc = "pp_catch"
    /\ payoutTx' = [payoutTx EXCEPT ![worker.req] =
                      IF @.status = "NONE"
                      THEN [status |-> "FAILED", txHash |-> 0, attempts |-> 1]
                      ELSE [@ EXCEPT !.status = "FAILED", !.attempts = @ + 1]]
    /\ requests' = SetStatus(requests, worker.req, CatchStatus)
    /\ payoutQueue' = Retry(payoutQueue, worker.name, worker.ref, worker.attemptsMade,
                            ProcessPayoutAttempts)
    /\ worker' = IdleWorker
    /\ UNCHANGED <<depVars, auxVars, authVars, stkVars, ledger, cache, whitelist, calls, approveTx, head,
                   broadcasts, everApproved>>

\* the worker process dies between two steps of processPayout: nothing more is
\* written, the catch block does not run, and the queue delivers the stalled
\* job again while attempts remain
PP_Crash ==
    /\ worker.pc \in {"pp_loaded", "pp_processing", "pp_broadcast", "pp_recorded", "pp_sent"}
    /\ payoutQueue' = Retry(payoutQueue, worker.name, worker.ref, worker.attemptsMade,
                            ProcessPayoutAttempts)
    /\ worker' = IdleWorker
    /\ UNCHANGED <<depVars, auxVars, authVars, stkVars, ledger, cache, requests, payoutTx, whitelist, calls,
                   approveTx, head, broadcasts, everApproved>>

\* prisma.payoutTx.findFirst({ where: { txHash } })
FindPayoutTx(h) == {r \in ReqIds : payoutTx[r].status # "NONE" /\ payoutTx[r].txHash = h}

Confirmations(currentBlock, blockNumber) == currentBlock - blockNumber + 1

\* checkPayoutStatus: load the PayoutTx, fetch the receipt and the block number
CK_Start(j) ==
    /\ worker.pc = "idle"
    /\ j.name = "checkPayoutStatus"
    /\ BagIn(j, payoutQueue)
    /\ Runnable(j)
    /\ LET q == payoutQueue (-) SetToBag({j})
           found == FindPayoutTx(j.ref)
           retry == /\ payoutQueue' = Retry(q, j.name, j.ref, j.attemptsMade,
                                            CheckPayoutAttempts)
                    /\ UNCHANGED worker
       IN  IF found = {}
           THEN retry
           ELSE LET r == CHOOSE x \in found : TRUE
                IN  IF payoutTx[r].status \in {"CONFIRMED", "FAILED"}
                    THEN /\ payoutQueue' = q
                         /\ UNCHANGED worker
                    ELSE IF ~broadcasts[j.ref].mined
                    THEN retry
                    ELSE /\ payoutQueue' = q
                         /\ worker' = [IdleWorker EXCEPT
                               !.pc = "ck_loaded", !.name = j.name, !.ref = j.ref,
                               !.attemptsMade = j.attemptsMade, !.req = r,
                               !.txHash = j.ref,
                               !.confirmations =
                                   Confirmations(head, broadcasts[j.ref].block),
                               !.receiptStatus =
                                   IF broadcasts[j.ref].ok THEN 1 ELSE 0]
    /\ UNCHANGED <<depVars, auxVars, authVars, stkVars, ledger, cache, requests, payoutTx, whitelist, calls, approveTx,
                   head, broadcasts, everApproved>>

\* checkPayoutStatus: the writes that follow the receipt
CK_Apply ==
    /\ worker.pc = "ck_loaded"
    /\ LET r == worker.req
           u == requests[r].userId
       IN  IF worker.receiptStatus = 0
           THEN /\ payoutTx' = [payoutTx EXCEPT ![r].status = "FAILED"]
                /\ requests' = SetStatus(requests, r, "FAILED")
                /\ UNCHANGED <<cache, payoutQueue>>
           ELSE IF worker.confirmations >= ConfirmationsRequired
           THEN /\ payoutTx' = [payoutTx EXCEPT ![r].status = "CONFIRMED"]
                /\ requests' = SetStatus(requests, r, "COMPLETED")
                /\ cache' = [cache EXCEPT ![u] = finalizeCache(@, requests[r].amount)]
                /\ UNCHANGED payoutQueue
           ELSE /\ payoutTx' = [payoutTx EXCEPT ![r].status = "CONFIRMING"]
                /\ requests' = SetStatus(requests, r, "CONFIRMING")
                /\ payoutQueue' = Retry(payoutQueue, worker.name, worker.ref,
                                        worker.attemptsMade, CheckPayoutAttempts)
                /\ UNCHANGED cache
    /\ worker' = IdleWorker
    /\ UNCHANGED <<depVars, auxVars, authVars, stkVars, ledger, whitelist, calls, approveTx, head, broadcasts,
                   everApproved>>

\* -------------------------------------------------------- deposit addresses

AddrCallers == 1..MaxAddrCalls

\* the users that ask for a deposit address
AddrUsers == {"u1", "u2", "u3"}

\* a getOrCreateDepositAddress call: the derivation index it computed, and the
\* row it returned (0: none) or the exception of depositAddress.create
IdleAddrCall == [pc |-> "idle", userId |-> "", derivationIndex |-> -1, row |-> 0, threw |-> FALSE]

\* prisma.depositAddress.findUnique({ where: { userId_chainId } })
FindAddress(u) == {i \in 1..Len(depositAddresses) : depositAddresses[i].userId = u}

RECURSIVE MaxDerivationIndex(_, _)
\* findFirst({ where: { chainId }, orderBy: { derivationIndex: 'desc' } }) over
\* the first n rows; -1 when there is none (lastAddress?.derivationIndex ?? -1)
MaxDerivationIndex(rows, n) ==
    IF n = 0 THEN -1
    ELSE LET rest == MaxDerivationIndex(rows, n - 1)
         IN  IF rows[n].derivationIndex > rest THEN rows[n].derivationIndex ELSE rest

\* getOrCreateDepositAddress: the lookup of the existing row
AddrFindExisting(c, u) ==
    /\ addrCalls[c].pc = "idle"
    /\ LET existing == FindAddress(u)
       IN  addrCalls' = [addrCalls EXCEPT ![c] =
              IF existing # {}
              THEN [IdleAddrCall EXCEPT !.pc = "done", !.userId = u,
                                        !.row = CHOOSE i \in existing : TRUE]
              ELSE [IdleAddrCall EXCEPT !.pc = "allocate", !.userId = u]]
    /\ UNCHANGED <<ledger, cache, wdVars, depVars, stkVars, authVars, depositAddresses, aprVars, head>>

\* getOrCreateDepositAddress: derivationIndex = (last index of the chain ?? -1) + 1
AddrFindLast(c) ==
    /\ addrCalls[c].pc = "allocate"
    /\ addrCalls' = [addrCalls EXCEPT ![c].pc = "create",
          ![c].derivationIndex =
              MaxDerivationIndex(depositAddresses, Len(depositAddresses)) + 1]
    /\ UNCHANGED <<ledger, cache, wdVars, depVars, stkVars, authVars, depositAddresses, aprVars, head>>

\* getOrCreateDepositAddress: depositAddress.create; (userId, chainId) is
\* unique, a second row for the user makes it throw
AddrCreate(c) ==
    /\ addrCalls[c].pc = "create"
    /\ IF FindAddress(addrCalls[c].userId) # {}
       THEN /\ addrCalls' = [addrCalls EXCEPT ![c].pc = "done", ![c].threw = TRUE]
            /\ UNCHANGED depositAddresses
       ELSE /\ depositAddresses' = Append(depositAddresses,
                  [userId |-> addrCalls[c].userId,
                   derivationIndex |-> addrCalls[c].derivationIndex])
            /\ addrCalls' = [addrCalls EXCEPT ![c].pc = "done",
                                              ![c].row = Len(depositAddresses) + 1]
    /\ UNCHANGED <<ledger, cache, wdVars, depVars, stkVars, authVars, aprVars, head>>

\* the deposit address of the funded user exists; no call is in flight
RegisteredAddresses ==
    /\ depositAddresses = <<[userId |-> "u1", derivationIndex |-> 0]>>
    /\ addrCalls = [c \in AddrCallers |-> IdleAddrCall]

\* ----------------------------------------------------------------- pool APR

\* the value of a nullable date (cooldownEndsAt, lockedUntil, effectiveTo) that
\* is null
NoTime == -1

Aprs == {1, 2}

\* an AprSchedule row; effectiveTo is NoTime (null) unless a row is closed
AprSchedule(apr, effectiveFrom) ==
    [apr |-> apr, effectiveFrom |-> effectiveFrom, effectiveTo |-> NoTime]

\* where: effectiveFrom <= date and (effectiveTo null or effectiveTo >= date)
ActiveSchedules(date) ==
    {i \in 1..Len(aprSchedules) :
        /\ aprSchedules[i].effectiveFrom <= date
        /\ (aprSchedules[i].effectiveTo = NoTime \/ aprSchedules[i].effectiveTo >= date)}

\* getEffectiveApr: the active row with the latest effectiveFrom (the database
\* picks one of several rows with the same effectiveFrom), else Pool.currentApr
getEffectiveApr(date) ==
    LET active == ActiveSchedules(date)
        latest == {i \in active : \A j \in active :
                      aprSchedules[j].effectiveFrom <= aprSchedules[i].effectiveFrom}
    IN  IF active = {} THEN {poolApr}
        ELSE {aprSchedules[i].apr : i \in latest}

\* AdminService.createPool at time 0: the Pool row and its first AprSchedule row
CreatedPool ==
    /\ poolApr = InitialApr
    /\ aprSchedules = <<AprSchedule(InitialApr, 0)>>

\* AdminService.scheduleAprChange; a date in the past is refused
ScheduleAprChange(newApr, effectiveFrom) ==
    /\ Len(aprSchedules) < MaxSchedules
    /\ IF effectiveFrom < now
       THEN UNCHANGED <<aprSchedules, poolApr>>
       ELSE /\ aprSchedules' = Append(aprSchedules, AprSchedule(newApr, effectiveFrom))
            /\ poolApr' = IF effectiveFrom <= now THEN newApr ELSE poolApr
    /\ UNCHANGED <<ledger, cache, wdVars, depVars, stkVars, authVars, depositAddresses, addrCalls,
                   head>>

\* -------------------------------------------------------------------- chain

FundedHead == ConfirmationsRequired

NewBlock(limit) ==
    /\ head < limit
    /\ head' = head + 1
    /\ UNCHANGED <<depVars, auxVars, authVars, stkVars, ledger, cache, requests, payoutTx, whitelist, calls, approveTx,
                   payoutQueue, worker, broadcasts, everApproved>>

\* a broadcast transfer is included in the next block; it succeeds or reverts
MineTx(h, ok, limit) ==
    /\ h \in 1..Len(broadcasts)
    /\ ~broadcasts[h].mined
    /\ head < limit
    /\ head' = head + 1
    /\ broadcasts' = [broadcasts EXCEPT ![h] = [@ EXCEPT !.mined = TRUE, !.ok = ok,
                                                        !.block = head + 1]]
    /\ UNCHANGED <<depVars, auxVars, authVars, stkVars, ledger, cache, requests, payoutTx, whitelist, calls, approveTx,
                   payoutQueue, worker, everApproved>>

\* --------------------------------------------------------- deposit pipeline

\* a Transfer(from, to, value) log of the asset's contract, to the deposit
\* address of user u, included in block `block`
TransferLog(u, value, block) == [userId |-> u, value |-> value, block |-> block]

\* someone sends `value` (possibly 0) of the ERC-20 asset to a deposit address
ChainTransfer(u, value) ==
    /\ Len(transfers) < MaxTransfers
    /\ head < MaxHead
    /\ head' = head + 1
    /\ transfers' = Append(transfers, TransferLog(u, value, head + 1))
    /\ UNCHANGED <<ledger, cache, wdVars, stkVars, auxVars, authVars, deposits, lastScanned, monitors, confCall>>

IdleMonitor == [pc |-> "idle", currentBlock |-> 0, events |-> <<>>, pending |-> <<>>]

IdleConfCall == [pc |-> "idle", deposit |-> 0, confirmations |-> 0]

\* prisma.deposit.findUnique({ where: { txHash_logIndex_chainId } })
FindDeposit(e) == {d \in 1..Len(deposits) : deposits[d].event = e}

\* fromBlock: lastScannedBlock + 1, or 1000 blocks back without a cursor; never
\* more than 10000 blocks behind the head
FromBlock(last, currentBlock) ==
    LET lastScannedBlock == IF last >= 0 THEN last ELSE currentBlock - DefaultScanBack
        lower == currentBlock - MaxScanBack
    IN  IF lastScannedBlock + 1 > lower THEN lastScannedBlock + 1 ELSE lower

RECURSIVE SeqOfSet(_)
SeqOfSet(S) ==
    IF S = {} THEN <<>>
    ELSE LET x == CHOOSE y \in S : \A z \in S : y <= z
         IN  <<x>> \o SeqOfSet(S \ {x})

\* the logs contract.queryFilter returns for blocks fromBlock..currentBlock
QueryFilter(fromBlock, currentBlock) ==
    SeqOfSet({e \in 1..Len(transfers) :
                 transfers[e].block >= fromBlock /\ transfers[e].block <= currentBlock})

\* formatUnits(value, decimals) -> new Decimal(amount): the value itself, in units
\* of the asset; a zero-value Transfer gives amount 0
DepositAmount(value) == value

\* confirmations >= chain.confirmationsRequired
IsConfirmedEarly(confirmations) == confirmations + 1 >= ConfirmationsRequired

IsConfirmed(confirmations) == confirmations >= ConfirmationsRequired

\* BalanceService.creditBalance / the monitor's balanceCache.upsert
creditCache(c, amt) ==
    IF c.exists THEN [c EXCEPT !.available = @ + amt]
    ELSE [EmptyCache EXCEPT !.exists = TRUE, !.available = amt]

\* scanChainDeposits: read the head and the cursor, list the Transfer logs
M_Start(m) ==
    /\ monitors[m].pc = "idle"
    /\ \A k \in 1..(m - 1) : monitors[k].pc # "idle"
    /\ LET currentBlock == head
           fromBlock == FromBlock(lastScanned, currentBlock)
       IN  IF fromBlock > currentBlock
           THEN UNCHANGED monitors
           ELSE monitors' = [monitors EXCEPT ![m] =
                    [IdleMonitor EXCEPT !.pc = "scan", !.currentBlock = currentBlock,
                                        !.events = QueryFilter(fromBlock, currentBlock)]]
    /\ UNCHANGED <<ledger, cache, wdVars, stkVars, auxVars, authVars, transfers, deposits, lastScanned, confCall, head>>

\* the existence check of one event
M_Find(m) ==
    /\ monitors[m].pc = "scan"
    /\ monitors[m].events # <<>>
    /\ monitors' = [monitors EXCEPT ![m] =
          IF FindDeposit(Head(monitors[m].events)) # {}
          THEN [monitors[m] EXCEPT !.events = Tail(monitors[m].events)]
          ELSE [monitors[m] EXCEPT !.pc = "create"]]
    /\ UNCHANGED <<ledger, cache, wdVars, stkVars, auxVars, authVars, transfers, deposits, lastScanned, confCall, head>>

\* prisma.deposit.create; (txHash, logIndex, chainId) is unique, so a row another
\* pass inserted meanwhile makes it throw and ends this pass's scanning loop
M_Create(m) ==
    /\ monitors[m].pc = "create"
    /\ LET e == Head(monitors[m].events)
       IN  IF FindDeposit(e) # {}
           THEN /\ monitors' = [monitors EXCEPT ![m].pc = "scan", ![m].events = <<>>]
                /\ UNCHANGED deposits
           ELSE /\ deposits' = Append(deposits,
                      [event |-> e, userId |-> transfers[e].userId,
                       amount |-> DepositAmount(transfers[e].value),
                       status |-> "CONFIRMING",
                       confirmations |-> monitors[m].currentBlock - transfers[e].block])
                /\ monitors' = [monitors EXCEPT ![m].pc = "scan",
                                                ![m].events = Tail(@)]
    /\ UNCHANGED <<ledger, cache, wdVars, stkVars, auxVars, authVars, transfers, lastScanned, confCall, head>>

\* contract.queryFilter or a database call of the scanning loop throws: the
\* catch around the asset's loop logs the error and the pass goes on
M_Throw(m) ==
    /\ monitors[m].pc \in {"scan", "create"}
    /\ monitors[m].events # <<>>
    /\ monitors' = [monitors EXCEPT ![m].pc = "scan", ![m].events = <<>>]
    /\ UNCHANGED <<ledger, cache, wdVars, stkVars, auxVars, authVars, transfers, deposits, lastScanned, confCall, head>>

\* the chain grows by MaxScanBack blocks while no scan runs
Outage ==
    /\ head < MaxScanBack
    /\ \A m \in Monitors : monitors[m].pc = "idle"
    /\ head' = head + MaxScanBack
    /\ UNCHANGED <<ledger, cache, wdVars, stkVars, auxVars, authVars, depVars>>

\* systemConfig.upsert lastScannedBlock = currentBlock
M_SaveCursor(m) ==
    /\ monitors[m].pc = "scan"
    /\ monitors[m].events = <<>>
    /\ lastScanned' = monitors[m].currentBlock
    /\ monitors' = [monitors EXCEPT ![m].pc = "saved"]
    /\ UNCHANGED <<ledger, cache, wdVars, stkVars, auxVars, authVars, transfers, deposits, confCall, head>>

\* deposit.findMany({ where: { status: 'CONFIRMING' } })
M_ReadPending(m) ==
    /\ monitors[m].pc = "saved"
    /\ monitors' = [monitors EXCEPT ![m].pc = "confirm",
          ![m].pending = SeqOfSet({d \in 1..Len(deposits) :
                                      deposits[d].status = "CONFIRMING"})]
    /\ UNCHANGED <<ledger, cache, wdVars, stkVars, auxVars, authVars, transfers, deposits, lastScanned, confCall, head>>

\* one round of the confirmation loop, for the next deposit of the snapshot
M_Confirm(m) ==
    /\ monitors[m].pc = "confirm"
    /\ monitors[m].pending # <<>>
    /\ LET d == Head(monitors[m].pending)
           dep == deposits[d]
           confirmations ==
               Confirmations(monitors[m].currentBlock, transfers[dep.event].block)
       IN  IF IsConfirmed(confirmations)
           THEN /\ deposits' = [deposits EXCEPT ![d].status = "CONFIRMED",
                                                ![d].confirmations = confirmations]
                /\ ledger' = Append(ledger,
                      Entry(dep.userId, "DEPOSIT_CONFIRMED", "CREDIT", dep.amount,
                            "Deposit", d))
                /\ cache' = [cache EXCEPT ![dep.userId] = creditCache(@, dep.amount)]
           ELSE /\ deposits' = [deposits EXCEPT ![d].confirmations = confirmations]
                /\ UNCHANGED <<ledger, cache>>
    /\ monitors' = [monitors EXCEPT ![m].pending = Tail(@)]
    /\ UNCHANGED <<wdVars, stkVars, auxVars, authVars, transfers, lastScanned, confCall, head>>

\* the pass returns
M_Finish(m) ==
    /\ monitors[m].pc = "confirm"
    /\ monitors[m].pending = <<>>
    /\ monitors' = [monitors EXCEPT ![m] = IdleMonitor]
    /\ UNCHANGED <<ledger, cache, wdVars, stkVars, auxVars, authVars, transfers, deposits, lastScanned, confCall, head>>

\* updateConfirmations(depositId, confirmations): the read before the transaction;
\* the caller passes the count it computed at the head of the moment
UC_Read(d, confirmations) ==
    /\ confCall.pc = "idle"
    /\ d \in 1..Len(deposits)
    /\ confirmations = Confirmations(head, transfers[deposits[d].event].block)
    /\ IF deposits[d].status = "CONFIRMED"
       THEN UNCHANGED confCall
       ELSE confCall' = [pc |-> "read", deposit |-> d, confirmations |-> confirmations]
    /\ UNCHANGED <<ledger, cache, wdVars, stkVars, auxVars, authVars, transfers, deposits, lastScanned, monitors, head>>

\* updateConfirmations: the transaction (deposit.update, creditBalance) or the
\* plain update of the counter
UC_Write ==
    /\ confCall.pc = "read"
    /\ LET d == confCall.deposit
           dep == deposits[d]
       IN  IF IsConfirmed(confCall.confirmations)
           THEN IF createEntryOk(ledger, dep.userId, "CREDIT", dep.amount)
                THEN /\ deposits' = [deposits EXCEPT
                           ![d].status = "CONFIRMED",
                           ![d].confirmations = confCall.confirmations]
                     /\ ledger' = Append(ledger,
                           Entry(dep.userId, "DEPOSIT_CONFIRMED", "CREDIT", dep.amount,
                                 "Deposit", d))
                     /\ cache' = [cache EXCEPT ![dep.userId] = creditCache(@, dep.amount)]
                ELSE UNCHANGED <<deposits, ledger, cache>>
           ELSE /\ deposits' = [deposits EXCEPT ![d].confirmations = confCall.confirmations]
                /\ UNCHANGED <<ledger, cache>>
    /\ confCall' = IdleConfCall
    /\ UNCHANGED <<wdVars, stkVars, auxVars, authVars, transfers, lastScanned, monitors, head>>

\* ------------------------------------------------------------------ staking

\* a Pool row: cooldown and lock periods in ticks
PoolRow(cooldown, lock) ==
    [isActive |-> TRUE, minStake |-> 1, totalCapacity |-> PoolCapacity, totalStaked |-> 0,
     cooldown |-> cooldown, lock |-> lock]

FlexiblePool == PoolRow(0, 0)

\* a sweep that takes every UNSTAKING position
CooldownOverAlways(cooldownEndsAt, at) == TRUE

\* processUnstakingPositions: where cooldownEndsAt: { lte: now }
CooldownOver(cooldownEndsAt, at) == cooldownEndsAt <= at

\* a lock that is never in force
IsLockedNever(lockedUntil, at) == FALSE

\* stake.lockedUntil && stake.lockedUntil > new Date()
IsLocked(lockedUntil, at) == lockedUntil # NoTime /\ lockedUntil > at

IdleRewardJob == [pc |-> "idle", now |-> 0, stakes |-> <<>>]

StakeCallers == 1..MaxStakeCalls

\* a createStake call: the pool row, the BalanceCache row and the ledger as its
\* SERIALIZABLE transaction read them, and the outcome returned to the caller
IdleStakeCall ==
    [pc |-> "idle", userId |-> "", amount |-> 0, resp |-> "",
     snap |-> [pool |-> PoolRow(0, 0), cache |-> EmptyCache, ledger |-> <<>>]]

\* amount * ratePerSecond * timeDiffSeconds; the tick is the time in which one
\* unit staked earns RatePerTick
Rewards(amount, timeDiff) == amount * RatePerTick * timeDiff

\* StakesService.calculateAccruedRewards: rewardsAccrued + rewards since the
\* last calculation
calculateAccruedRewards(stake, at) ==
    stake.rewardsAccrued + Rewards(stake.amount, at - stake.lastRewardCalculation)

stakeCache(c, amt) == [c EXCEPT !.available = @ - amt, !.staked = @ + amt]

\* BalanceService.unstakeToBalance: both buckets move by the amount it is given
unstakeCache(c, amt) == [c EXCEPT !.available = @ + amt, !.staked = @ - amt]

\* BalanceService.claimRewards
claimCache(c, amt) == [c EXCEPT !.available = @ + amt, !.rewardsAccrued = @ - amt]

\* the reward calculator's balanceCache.upsert
accrueCache(c, staked, amt) ==
    IF c.exists THEN [c EXCEPT !.rewardsAccrued = @ + amt]
    ELSE [EmptyCache EXCEPT !.exists = TRUE, !.staked = staked, !.rewardsAccrued = amt]

\* processUnstakingPositions' balanceCache.update
sweepCache(c, totalAmount, principal, accrued) ==
    [c EXCEPT !.available = @ + totalAmount, !.staked = @ - principal,
              !.rewardsAccrued = @ - accrued]

Tick ==
    /\ now < MaxTime
    /\ now' = now + 1
    /\ UNCHANGED <<ledger, cache, wdVars, depVars, auxVars, authVars, pool, positions, rewardJob, stakeCalls, unstakeResp, head>>

\* StakesService.createStake opens its SERIALIZABLE transaction and reads the
\* pool; limit bounds the number of StakePosition rows of a run
CreateStakeBegin(c, u, amount, limit) ==
    /\ stakeCalls[c].pc = "idle"
    /\ IF c = 1 THEN TRUE ELSE stakeCalls[c - 1].pc # "idle"
    /\ Len(positions) + Cardinality({k \in StakeCallers : stakeCalls[k].pc = "open"}) < limit
    /\ stakeCalls' = [stakeCalls EXCEPT ![c] =
          [pc |-> "open", userId |-> u, amount |-> amount, resp |-> "",
           snap |-> [pool |-> pool, cache |-> cache[u], ledger |-> ledger]]]
    /\ UNCHANGED <<ledger, cache, wdVars, depVars, auxVars, authVars, now, pool, positions, rewardJob,
                   unstakeResp, head>>

\* READ COMMITTED: concurrent committed writes to the rows are not detected
StakeReadCommittedConflict(snap, p, row, l) == FALSE

\* Serializable: the pool.update / balanceCache.update of a transaction whose
\* snapshot is older than a committed change of the row fails
StakeSerializationConflict(snap, p, row, l) ==
    snap.pool # p \/ SerializationConflict(snap, row, l)

\* StakesService.createStake, the body of the transaction up to its commit
CreateStake(c) ==
    /\ stakeCalls[c].pc = "open"
    /\ LET u == stakeCalls[c].userId
           amount == stakeCalls[c].amount
           snap == stakeCalls[c].snap
           finish(resp) == stakeCalls' = [stakeCalls EXCEPT ![c] =
                                            [IdleStakeCall EXCEPT !.pc = "done", !.userId = u,
                                                                  !.amount = amount,
                                                                  !.resp = resp]]
       IN  IF ~snap.pool.isActive
           THEN finish("POOL_INACTIVE") /\ UNCHANGED <<ledger, cache, pool, positions>>
           ELSE IF amount < snap.pool.minStake
           THEN finish("MIN_STAKE") /\ UNCHANGED <<ledger, cache, pool, positions>>
           ELSE IF amount > snap.pool.totalCapacity - snap.pool.totalStaked
           THEN finish("CAPACITY_EXCEEDED") /\ UNCHANGED <<ledger, cache, pool, positions>>
           ELSE IF ~snap.cache.exists \/ snap.cache.available < amount
           THEN finish("INSUFFICIENT_BALANCE") /\ UNCHANGED <<ledger, cache, pool, positions>>
           ELSE IF ~createEntryOk(snap.ledger, u, "DEBIT", amount)
           THEN finish("LEDGER_REJECTED") /\ UNCHANGED <<ledger, cache, pool, positions>>
           ELSE IF StakeSerializationConflict(snap, pool, cache[u], ledger)
           THEN finish("SERIALIZATION_FAILURE") /\ UNCHANGED <<ledger, cache, pool, positions>>
           ELSE /\ positions' = Append(positions,
                      [userId |-> u, amount |-> amount, status |-> "ACTIVE",
                       rewardsAccrued |-> 0, rewardsClaimed |-> 0,
                       lastRewardCalculation |-> now, createdAt |-> now,
                       lockedUntil |-> IF pool.lock > 0 THEN now + pool.lock ELSE NoTime,
                       cooldownEndsAt |-> NoTime])
                /\ pool' = [pool EXCEPT !.totalStaked = @ + amount]
                /\ ledger' = Append(ledger,
                      Entry(u, "STAKE_CREATED", "DEBIT", amount, "StakePosition",
                            Len(positions) + 1))
                /\ cache' = [cache EXCEPT ![u] = stakeCache(@, amount)]
                /\ finish("ok")
    /\ UNCHANGED <<wdVars, depVars, auxVars, authVars, now, rewardJob, unstakeResp, head>>

\* the outcome of an unstake call: the position it named and, for a refusal,
\* the exception StakesService.unstake threw:
\*   FORBIDDEN     ForbiddenException('Access denied')
\*   NOT_ACTIVE    BadRequestException('Stake is not active')
\*   STAKE_LOCKED  BadRequestException('Stake is locked until ...')
\*   LEDGER_REJECTED  the exception of LedgerService.createEntry
NoUnstake == [stake |-> 0, resp |-> ""]

\* StakesService.unstake, one SERIALIZABLE transaction
Unstake(u, p) ==
    /\ p \in 1..Len(positions)
    /\ LET stake == positions[p]
           finalRewards == calculateAccruedRewards(stake, now)
           totalAmount == stake.amount + finalRewards
           throw(resp) == /\ unstakeResp' = [stake |-> p, resp |-> resp]
                          /\ UNCHANGED <<ledger, cache, pool, positions>>
       IN  IF stake.userId # u
           THEN throw("FORBIDDEN")
           ELSE IF stake.status # "ACTIVE"
           THEN throw("NOT_ACTIVE")
           ELSE IF IsLocked(stake.lockedUntil, now)
           THEN throw("STAKE_LOCKED")
           ELSE IF pool.cooldown > 0 /\ stake.cooldownEndsAt = NoTime
           THEN /\ positions' = [positions EXCEPT
                      ![p].status = "UNSTAKING",
                      ![p].cooldownEndsAt = now + pool.cooldown]
                /\ unstakeResp' = [stake |-> p, resp |-> "UNSTAKING"]
                /\ UNCHANGED <<ledger, cache, pool>>
           ELSE IF ~createEntryOk(ledger, u, "CREDIT", totalAmount)
           THEN throw("LEDGER_REJECTED")
           ELSE /\ positions' = [positions EXCEPT ![p].status = "COMPLETED",
                                                  ![p].rewardsAccrued = finalRewards]
                /\ pool' = [pool EXCEPT !.totalStaked = @ - stake.amount]
                /\ ledger' = Append(ledger,
                      Entry(u, "UNSTAKE_COMPLETED", "CREDIT", totalAmount,
                            "StakePosition", p))
                /\ cache' = [cache EXCEPT ![u] = unstakeCache(@, totalAmount)]
                /\ unstakeResp' = [stake |-> p, resp |-> "COMPLETED"]
    /\ UNCHANGED <<wdVars, depVars, auxVars, authVars, now, rewardJob, stakeCalls, head>>

\* StakesService.claimRewards, one SERIALIZABLE transaction
ClaimRewards(u, p) ==
    /\ p \in 1..Len(positions)
    /\ LET stake == positions[p]
           accruedRewards == calculateAccruedRewards(stake, now)
       IN  IF \/ stake.userId # u
              \/ stake.status # "ACTIVE"
              \/ accruedRewards <= 0
              \/ ~createEntryOk(ledger, u, "CREDIT", accruedRewards)
           THEN UNCHANGED <<ledger, cache, positions>>
           ELSE /\ positions' = [positions EXCEPT
                      ![p].rewardsAccrued = 0,
                      ![p].rewardsClaimed = @ + accruedRewards,
                      ![p].lastRewardCalculation = now]
                /\ ledger' = Append(ledger,
                      Entry(u, "REWARD_CLAIMED", "CREDIT", accruedRewards,
                            "StakePosition", p))
                /\ cache' = [cache EXCEPT ![u] = claimCache(@, accruedRewards)]
    /\ UNCHANGED <<wdVars, depVars, auxVars, authVars, now, pool, rewardJob, stakeCalls, unstakeResp, head>>

\* the rows a findMany returns, as read at that moment
Snapshot(ids) == [i \in 1..Len(ids) |->
    [id |-> ids[i], userId |-> positions[ids[i]].userId,
     amount |-> positions[ids[i]].amount,
     rewardsAccrued |-> positions[ids[i]].rewardsAccrued,
     lastRewardCalculation |-> positions[ids[i]].lastRewardCalculation]]

\* calculateRewards: now = new Date(); findMany of the ACTIVE positions
CR_Start ==
    /\ rewardJob.pc = "idle"
    /\ rewardJob' = [pc |-> "accrue", now |-> now,
          stakes |-> Snapshot(SeqOfSet({p \in 1..Len(positions) :
                                           positions[p].status = "ACTIVE"}))]
    /\ UNCHANGED <<ledger, cache, wdVars, depVars, auxVars, authVars, now, pool, positions, stakeCalls, unstakeResp, head>>

\* one round of the accrual loop, computed from the row as it was read
CR_Accrue ==
    /\ rewardJob.pc = "accrue"
    /\ rewardJob.stakes # <<>>
    /\ LET stake == Head(rewardJob.stakes)
           timeDiff == rewardJob.now - stake.lastRewardCalculation
           newRewards == Rewards(stake.amount, timeDiff)
       IN  IF timeDiff < 1 \/ newRewards <= 0
           THEN UNCHANGED <<ledger, cache, positions>>
           ELSE /\ positions' = [positions EXCEPT
                      ![stake.id].rewardsAccrued = @ + newRewards,
                      ![stake.id].lastRewardCalculation = rewardJob.now]
                /\ cache' = [cache EXCEPT ![stake.userId] =
                                 accrueCache(@, stake.amount, newRewards)]
                /\ ledger' = Append(ledger,
                      Entry(stake.userId, "REWARD_ACCRUED", "CREDIT", newRewards,
                            "StakePosition", stake.id))
    /\ rewardJob' = [rewardJob EXCEPT !.stakes = Tail(@)]
    /\ UNCHANGED <<wdVars, depVars, auxVars, authVars, now, pool, stakeCalls, unstakeResp, head>>

\* processUnstakingPositions: findMany of the UNSTAKING positions whose cooldown
\* has ended
PU_Read ==
    /\ rewardJob.pc = "accrue"
    /\ rewardJob.stakes = <<>>
    /\ rewardJob' = [rewardJob EXCEPT !.pc = "sweep",
          !.stakes = Snapshot(SeqOfSet({p \in 1..Len(positions) :
                         /\ positions[p].status = "UNSTAKING"
                         /\ CooldownOver(positions[p].cooldownEndsAt, rewardJob.now)}))]
    /\ UNCHANGED <<ledger, cache, wdVars, depVars, auxVars, authVars, now, pool, positions, stakeCalls, unstakeResp, head>>

\* a sweep that pays nothing for the time since the last calculation
sweepFinalRewardsNone(stake, at) == 0

\* processUnstakingPositions: the rewards from lastRewardCalculation to the
\* job's now
sweepFinalRewards(stake, at) == Rewards(stake.amount, at - stake.lastRewardCalculation)

\* one round of the sweep: the position is finalized from the row as it was read
PU_Finalize ==
    /\ rewardJob.pc = "sweep"
    /\ rewardJob.stakes # <<>>
    /\ LET stake == Head(rewardJob.stakes)
           finalRewards == sweepFinalRewards(stake, rewardJob.now)
           totalRewards == stake.rewardsAccrued + finalRewards
           totalAmount == stake.amount + totalRewards
       IN  IF ~cache[stake.userId].exists
           THEN UNCHANGED <<ledger, cache, pool, positions>>
           ELSE /\ positions' = [positions EXCEPT ![stake.id].status = "COMPLETED",
                                                  ![stake.id].rewardsAccrued = totalRewards]
                /\ pool' = [pool EXCEPT !.totalStaked = @ - stake.amount]
                /\ cache' = [cache EXCEPT ![stake.userId] =
                                 sweepCache(@, totalAmount, stake.amount,
                                            stake.rewardsAccrued)]
                /\ ledger' = Append(ledger,
                      Entry(stake.userId, "UNSTAKE_COMPLETED", "CREDIT", totalAmount,
                            "StakePosition", stake.id))
    /\ rewardJob' = [rewardJob EXCEPT !.stakes = Tail(@)]
    /\ UNCHANGED <<wdVars, depVars, auxVars, authVars, now, stakeCalls, unstakeResp, head>>

\* the job returns
CR_Finish ==
    /\ rewardJob.pc = "sweep"
    /\ rewardJob.stakes = <<>>
    /\ rewardJob' = IdleRewardJob
    /\ UNCHANGED <<ledger, cache, wdVars, depVars, auxVars, authVars, now, pool, positions, stakeCalls, unstakeResp, head>>

\* reconcile-balances calculateBalanceFromLedger: the effect of one entry
ApplyEntry(b, e) ==
    LET credit == e.direction = "CREDIT"
        a == e.amount
    IN  CASE e.entryType = "DEPOSIT_CONFIRMED" /\ credit ->
                 [b EXCEPT !.available = @ + a]
          [] e.entryType = "STAKE_CREATED" /\ ~credit ->
                 [b EXCEPT !.available = @ - a, !.staked = @ + a]
          [] e.entryType = "UNSTAKE_COMPLETED" /\ credit ->
                 [b EXCEPT !.staked = @ - a, !.available = @ + a]
          [] e.entryType = "REWARD_ACCRUED" /\ credit ->
                 [b EXCEPT !.rewardsAccrued = @ + a]
          [] e.entryType = "REWARD_CLAIMED" /\ credit ->
                 [b EXCEPT !.rewardsAccrued = @ - a, !.available = @ + a]
          [] e.entryType = "WITHDRAWAL_REQUESTED" /\ ~credit ->
                 [b EXCEPT !.available = @ - a, !.withdrawalsPending = @ + a]
          [] e.entryType = "WITHDRAWAL_REJECTED" /\ credit ->
                 [b EXCEPT !.withdrawalsPending = @ - a, !.available = @ + a]
          [] e.entryType = "WITHDRAWAL_PAID" /\ ~credit ->
                 [b EXCEPT !.withdrawalsPending = @ - a]
          [] e.entryType = "ADJUSTMENT" ->
                 [b EXCEPT !.available = IF credit THEN @ + a ELSE @ - a]
          [] OTHER -> b

RECURSIVE calculateBalanceFromLedger(_, _, _)
\* the fold over the first n entries of the ledger, those of user u
calculateBalanceFromLedger(l, u, n) ==
    IF n = 0
    THEN [available |-> 0, staked |-> 0, rewardsAccrued |-> 0, withdrawalsPending |-> 0]
    ELSE LET b == calculateBalanceFromLedger(l, u, n - 1)
         IN  IF l[n].userId = u THEN ApplyEntry(b, l[n]) ELSE b

\* ------------------------------------------------------------ authentication

Accounts == {"u1", "a1"}

\* ROLE of each account: one end user, one administrator
Role(u) == IF u = "a1" THEN "ADMIN" ELSE "USER"

RefreshCallers == 1..MaxRefreshCalls
LoginCallers == 1..MaxLoginCalls
TfaCallers == 1..MaxTfaCalls

\* a TOTP code is the number of the secret it was computed from; 0: the request
\* carries no code
Totps == 0..MaxSecrets

NoSecret == [exists |-> FALSE, isVerified |-> FALSE, secret |-> 0]

\* a Session row; rotatedFrom is the session whose refresh token was presented
\* to the refresh that created it (0: created by login)
SessionRow(u, from) ==
    [userId |-> u, isRevoked |-> FALSE, expired |-> FALSE, rotatedFrom |-> from]

IdleRefresh == [pc |-> "idle", token |-> 0, resp |-> "", session |-> 0]

IdleLogin == [pc |-> "idle", userId |-> "", totp |-> 0, twoFactorEnabled |-> FALSE,
              isVerified |-> FALSE, resp |-> "", session |-> 0]

IdleTfa == [pc |-> "idle", op |-> "", userId |-> "", token |-> 0]

NoAccess == [session |-> 0, ok |-> FALSE]

\* SessionService.validateRefreshToken returns the session: the row exists, is
\* not revoked and has not expired (a refresh token is the index of its row)
validateRefreshToken(ss, t) ==
    /\ t \in 1..Len(ss)
    /\ ~ss[t].isRevoked
    /\ ~ss[t].expired

\* JwtStrategy.validate accepts an access token bound to session s
validate(ss, s) ==
    /\ s \in 1..Len(ss)
    /\ ~ss[s].isRevoked

\* SessionService.revokeSession
revokeSession(ss, s) == [ss EXCEPT ![s].isRevoked = TRUE]

\* SessionService.revokeAllUserSessions(userId, exceptSessionId)
revokeAllUserSessions(ss, u, except) ==
    [s \in 1..Len(ss) |->
        IF ss[s].userId = u /\ ~ss[s].isRevoked /\ s # except
        THEN [ss[s] EXCEPT !.isRevoked = TRUE] ELSE ss[s]]

\* AuthService.refresh, validateRefreshToken: lookup, checks, lastActiveAt
R_Validate(c, t) ==
    /\ refreshCalls[c].pc = "idle"
    /\ IF c = 1 THEN TRUE ELSE refreshCalls[c - 1].pc # "idle"
    /\ t \in 1..MaxSessions
    /\ refreshCalls' = [refreshCalls EXCEPT ![c] =
          IF validateRefreshToken(sessions, t)
          THEN [IdleRefresh EXCEPT !.pc = "validated", !.token = t]
          ELSE [IdleRefresh EXCEPT !.pc = "done", !.token = t, !.resp = "UNAUTHORIZED"]]
    /\ UNCHANGED <<ledger, cache, wdVars, depVars, auxVars, stkVars, head, userRows, secrets,
                   nextSecret, recoveryCodes, sessions, loginCalls, tfaCalls, lastAccess, guardCall>>

\* AuthService.refresh, the rotation: revokeSession(session.id)
R_Revoke(c) ==
    /\ refreshCalls[c].pc = "validated"
    /\ sessions' = revokeSession(sessions, refreshCalls[c].token)
    /\ refreshCalls' = [refreshCalls EXCEPT ![c].pc = "revoked"]
    /\ UNCHANGED <<ledger, cache, wdVars, depVars, auxVars, stkVars, head, userRows, secrets,
                   nextSecret, recoveryCodes, loginCalls, tfaCalls, lastAccess, guardCall>>

\* AuthService.refresh, createAuthTokens: a new session row and the token pair
R_Create(c) ==
    /\ refreshCalls[c].pc = "revoked"
    /\ Len(sessions) < MaxSessions
    /\ sessions' = Append(sessions,
          SessionRow(sessions[refreshCalls[c].token].userId, refreshCalls[c].token))
    /\ refreshCalls' = [refreshCalls EXCEPT ![c].pc = "done", ![c].resp = "ok",
                                            ![c].session = Len(sessions) + 1]
    /\ UNCHANGED <<ledger, cache, wdVars, depVars, auxVars, stkVars, head, userRows, secrets,
                   nextSecret, recoveryCodes, loginCalls, tfaCalls, lastAccess, guardCall>>

\* POST /auth/logout behind the JWT guard: revokeSession(user.sessionId)
Logout(s) ==
    /\ validate(sessions, s)
    /\ sessions' = revokeSession(sessions, s)
    /\ UNCHANGED <<ledger, cache, wdVars, depVars, auxVars, stkVars, head, userRows, secrets,
                   nextSecret, recoveryCodes, refreshCalls, loginCalls, tfaCalls, lastAccess, guardCall>>

\* POST /auth/logout-all behind the JWT guard: every other session of the user
LogoutAll(s) ==
    /\ validate(sessions, s)
    /\ sessions' = revokeAllUserSessions(sessions, sessions[s].userId, s)
    /\ UNCHANGED <<ledger, cache, wdVars, depVars, auxVars, stkVars, head, userRows, secrets,
                   nextSecret, recoveryCodes, refreshCalls, loginCalls, tfaCalls, lastAccess, guardCall>>

\* DELETE /auth/sessions/:id behind the JWT guard: the target is revoked when
\* getUserSessions (own, not revoked, not expired) lists it
DeleteSession(s, target) ==
    /\ validate(sessions, s)
    /\ target \in 1..Len(sessions)
    /\ sessions' = IF /\ sessions[target].userId = sessions[s].userId
                      /\ ~sessions[target].isRevoked
                      /\ ~sessions[target].expired
                   THEN revokeSession(sessions, target) ELSE sessions
    /\ UNCHANGED <<ledger, cache, wdVars, depVars, auxVars, stkVars, head, userRows, secrets,
                   nextSecret, recoveryCodes, refreshCalls, loginCalls, tfaCalls, lastAccess, guardCall>>

\* the expiresAt of a session passes
ExpireSession(s) ==
    /\ s \in 1..Len(sessions)
    /\ ~sessions[s].expired
    /\ sessions' = [sessions EXCEPT ![s].expired = TRUE]
    /\ UNCHANGED <<ledger, cache, wdVars, depVars, auxVars, stkVars, head, userRows, secrets,
                   nextSecret, recoveryCodes, refreshCalls, loginCalls, tfaCalls, lastAccess, guardCall>>

\* a protected request carrying an access token bound to session s
AccessValidate(s) ==
    /\ s \in 1..MaxSessions
    /\ lastAccess' = [session |-> s, ok |-> validate(sessions, s)]
    /\ UNCHANGED <<ledger, cache, wdVars, depVars, auxVars, stkVars, head, userRows, secrets,
                   nextSecret, recoveryCodes, sessions, refreshCalls, loginCalls, tfaCalls,
                   guardCall>>

\* TwoFactorService.verifyToken: the secret row exists, is verified, and the
\* code was computed from the stored secret
verifyToken(sec, u, token) ==
    /\ sec[u].exists
    /\ sec[u].isVerified
    /\ token # 0
    /\ token = sec[u].secret

\* the administrator check left out
AdminRequires2faSkipped(role, twoFactorEnabled) == FALSE

\* login: (role === 'ADMIN' || role === 'SUPER_ADMIN') && !twoFactorEnabled
AdminRequires2fa(role, twoFactorEnabled) ==
    role \in {"ADMIN", "SUPER_ADMIN"} /\ ~twoFactorEnabled

\* the 2fa endpoints sit behind the JWT guard: the caller holds a usable session
Authenticated(u) == \E s \in 1..Len(sessions) : validate(sessions, s) /\ sessions[s].userId = u

\* AuthService.login: the user row with its twoFactorSecret is read and the
\* password is verified
L_Read(c, u, passwordValid, totp) ==
    /\ loginCalls[c].pc = "idle"
    /\ IF c = 1 THEN TRUE ELSE loginCalls[c - 1].pc # "idle"
    /\ loginCalls' = [loginCalls EXCEPT ![c] =
          IF ~passwordValid
          THEN [IdleLogin EXCEPT !.pc = "done", !.userId = u, !.resp = "UNAUTHORIZED"]
          ELSE [IdleLogin EXCEPT !.pc = "read", !.userId = u, !.totp = totp,
                                 !.twoFactorEnabled = userRows[u].twoFactorEnabled,
                                 !.isVerified = secrets[u].exists /\ secrets[u].isVerified]]
    /\ UNCHANGED <<ledger, cache, wdVars, depVars, auxVars, stkVars, head, userRows, secrets,
                   nextSecret, recoveryCodes, sessions, refreshCalls, tfaCalls, lastAccess, guardCall>>

\* AuthService.login: the 2FA check, the administrator check, createAuthTokens
L_Finish(c) ==
    /\ loginCalls[c].pc = "read"
    /\ LET call == loginCalls[c]
           u == call.userId
           finish(resp, s) == loginCalls' = [loginCalls EXCEPT ![c] =
                                 [IdleLogin EXCEPT !.pc = "done", !.userId = u,
                                                   !.resp = resp, !.session = s]]
       IN  IF call.twoFactorEnabled /\ call.isVerified /\ call.totp = 0
           THEN finish("TOTP_REQUIRED", 0) /\ UNCHANGED sessions
           ELSE IF call.twoFactorEnabled /\ call.isVerified
                   /\ ~verifyToken(secrets, u, call.totp)
           THEN finish("INVALID_TOTP", 0) /\ UNCHANGED sessions
           ELSE IF AdminRequires2fa(Role(u), call.twoFactorEnabled)
           THEN finish("FORBIDDEN", 0) /\ UNCHANGED sessions
           ELSE /\ Len(sessions) < MaxSessions
                /\ sessions' = Append(sessions, SessionRow(u, 0))
                /\ finish("ok", Len(sessions) + 1)
    /\ UNCHANGED <<ledger, cache, wdVars, depVars, auxVars, stkVars, head, userRows, secrets,
                   nextSecret, recoveryCodes, refreshCalls, tfaCalls, lastAccess, guardCall>>

\* TwoFactorService.generateSecret reads user.twoFactorEnabled; it throws when
\* 2FA is already enabled
G_Read(g, u) ==
    /\ tfaCalls[g].pc = "idle"
    /\ Authenticated(u)
    /\ tfaCalls' = IF userRows[u].twoFactorEnabled THEN tfaCalls
                   ELSE [tfaCalls EXCEPT ![g] = [pc |-> "upsert", op |-> "setup",
                                                 userId |-> u, token |-> 0]]
    /\ UNCHANGED <<ledger, cache, wdVars, depVars, auxVars, stkVars, head, userRows, secrets,
                   nextSecret, recoveryCodes, sessions, refreshCalls, loginCalls, lastAccess, guardCall>>

\* TwoFactorService.generateSecret stores the new secret, unverified
G_Upsert(g) ==
    /\ tfaCalls[g].pc = "upsert"
    /\ nextSecret <= MaxSecrets
    /\ secrets' = [secrets EXCEPT ![tfaCalls[g].userId] =
                      [exists |-> TRUE, isVerified |-> FALSE, secret |-> nextSecret]]
    /\ nextSecret' = nextSecret + 1
    /\ tfaCalls' = [tfaCalls EXCEPT ![g] = IdleTfa]
    /\ UNCHANGED <<ledger, cache, wdVars, depVars, auxVars, stkVars, head, userRows,
                   recoveryCodes, sessions, refreshCalls, loginCalls, lastAccess, guardCall>>

\* TwoFactorService.verifyAndEnable reads the secret and verifies the code
V_Read(g, u, token) ==
    /\ tfaCalls[g].pc = "idle"
    /\ Authenticated(u)
    /\ tfaCalls' = IF \/ ~secrets[u].exists
                      \/ secrets[u].isVerified
                      \/ token = 0
                      \/ token # secrets[u].secret
                   THEN tfaCalls
                   ELSE [tfaCalls EXCEPT ![g] = [pc |-> "enable", op |-> "verify",
                                                 userId |-> u, token |-> token]]
    /\ UNCHANGED <<ledger, cache, wdVars, depVars, auxVars, stkVars, head, userRows, secrets,
                   nextSecret, recoveryCodes, sessions, refreshCalls, loginCalls, lastAccess, guardCall>>

\* TwoFactorService.verifyAndEnable, the $transaction; twoFactorSecret.update
\* throws when the row is gone and the transaction is rolled back
V_Commit(g) ==
    /\ tfaCalls[g].pc = "enable"
    /\ LET u == tfaCalls[g].userId
       IN  IF ~secrets[u].exists
           THEN UNCHANGED <<secrets, userRows, recoveryCodes>>
           ELSE /\ secrets' = [secrets EXCEPT ![u].isVerified = TRUE]
                /\ userRows' = [userRows EXCEPT ![u].twoFactorEnabled = TRUE]
                /\ recoveryCodes' = [recoveryCodes EXCEPT ![u] = RecoveryCodeCount]
    /\ tfaCalls' = [tfaCalls EXCEPT ![g] = IdleTfa]
    /\ UNCHANGED <<ledger, cache, wdVars, depVars, auxVars, stkVars, head, nextSecret, sessions,
                   refreshCalls, loginCalls, lastAccess, guardCall>>

\* TwoFactorService.disable verifies the code with verifyToken
D_Read(g, u, token) ==
    /\ tfaCalls[g].pc = "idle"
    /\ Authenticated(u)
    /\ tfaCalls' = IF ~verifyToken(secrets, u, token) THEN tfaCalls
                   ELSE [tfaCalls EXCEPT ![g] = [pc |-> "disable", op |-> "disable",
                                                 userId |-> u, token |-> token]]
    /\ UNCHANGED <<ledger, cache, wdVars, depVars, auxVars, stkVars, head, userRows, secrets,
                   nextSecret, recoveryCodes, sessions, refreshCalls, loginCalls, lastAccess, guardCall>>

\* TwoFactorService.disable, the $transaction; twoFactorSecret.delete throws
\* when the row is gone and the transaction is rolled back
D_Commit(g) ==
    /\ tfaCalls[g].pc = "disable"
    /\ LET u == tfaCalls[g].userId
       IN  IF ~secrets[u].exists
           THEN UNCHANGED <<secrets, userRows, recoveryCodes>>
           ELSE /\ secrets' = [secrets EXCEPT ![u] = NoSecret]
                /\ userRows' = [userRows EXCEPT ![u].twoFactorEnabled = FALSE]
                /\ recoveryCodes' = [recoveryCodes EXCEPT ![u] = 0]
    /\ tfaCalls' = [tfaCalls EXCEPT ![g] = IdleTfa]
    /\ UNCHANGED <<ledger, cache, wdVars, depVars, auxVars, stkVars, head, nextSecret, sessions,
                   refreshCalls, loginCalls, lastAccess, guardCall>>

\* ------------------------------------------------------------------- roles

\* const ROLE_HIERARCHY: Role[] = ['USER', 'SUPPORT', 'ADMIN', 'SUPER_ADMIN']
ROLE_HIERARCHY == <<"USER", "SUPPORT", "ADMIN", "SUPER_ADMIN">>

RoleNames == {ROLE_HIERARCHY[i] : i \in 1..Len(ROLE_HIERARCHY)}

\* Array.prototype.indexOf on ROLE_HIERARCHY: 0-based, -1 when absent
indexOf(role) ==
    IF role \in RoleNames
    THEN (CHOOSE i \in 1..Len(ROLE_HIERARCHY) : ROLE_HIERARCHY[i] = role) - 1
    ELSE -1

\* the @Roles(...) metadata of a handler or of a controller class
NoRolesMeta == [defined |-> FALSE, roles |-> {}]

RolesMeta(roles) == [defined |-> TRUE, roles |-> roles]

\* a guard that reads the class metadata before the handler metadata
getAllAndOverrideClassFirst(handlerMeta, classMeta) ==
    IF classMeta.defined THEN classMeta.roles
    ELSE IF handlerMeta.defined THEN handlerMeta.roles
    ELSE {}

\* reflector.getAllAndOverride(ROLES_KEY, [handler, class]): the first of the
\* two that is defined; {} stands for undefined
getAllAndOverride(handlerMeta, classMeta) ==
    IF handlerMeta.defined THEN handlerMeta.roles
    ELSE IF classMeta.defined THEN classMeta.roles
    ELSE {}

\* the user JwtStrategy.validate attaches to the request; "" when there is none
NoUser == ""

\* RolesGuard.canActivate: TRUE when it returns true, FALSE when it throws
\* ForbiddenException
canActivate(handlerMeta, classMeta, userRole) ==
    LET requiredRoles == getAllAndOverride(handlerMeta, classMeta)
    IN  IF requiredRoles = {} THEN TRUE
        ELSE IF userRole = NoUser THEN FALSE
        ELSE \E role \in requiredRoles : indexOf(userRole) >= indexOf(role)

\* @Roles('ADMIN', 'SUPER_ADMIN') on AdminController
AdminControllerMeta == RolesMeta({"ADMIN", "SUPER_ADMIN"})

\* the handlers of AdminController that carry their own @Roles('SUPER_ADMIN')
SuperAdminRoutes == {"POST treasury", "POST chains", "POST assets"}

\* the routes of AdminController (/v1/admin/...)
AdminRoutes ==
    {"GET dashboard", "GET users", "GET users/:id", "GET pools", "POST pools",
     "PUT pools/:id", "POST pools/:id/apr", "GET withdrawals", "GET withdrawals/:id",
     "POST withdrawals/:id/approve", "POST withdrawals/:id/reject",
     "POST withdrawals/:id/mark-paid", "GET treasury", "GET chains", "GET assets",
     "GET audit-logs"} \cup SuperAdminRoutes

\* the @Roles metadata of the handler of an admin route
HandlerMeta(route) ==
    IF route \in SuperAdminRoutes THEN RolesMeta({"SUPER_ADMIN"}) ELSE NoRolesMeta

NoGuardCall == [route |-> "", handlerMeta |-> NoRolesMeta, classMeta |-> NoRolesMeta,
                role |-> NoUser, admitted |-> FALSE]

\* a request of a caller with the given role to a route of AdminController
AdminRequest(route, role) ==
    /\ guardCall' = [route |-> route, handlerMeta |-> HandlerMeta(route),
                     classMeta |-> AdminControllerMeta, role |-> role,
                     admitted |-> canActivate(HandlerMeta(route), AdminControllerMeta, role)]
    /\ UNCHANGED <<ledger, cache, wdVars, depVars, auxVars, stkVars, head, userRows, secrets,
                   nextSecret, recoveryCodes, sessions, refreshCalls, loginCalls, tfaCalls,
                   lastAccess>>

\* a request to a handler guarded by RolesGuard with any declaration of roles
GuardedRequest(handlerMeta, classMeta, role) ==
    /\ guardCall' = [route |-> "", handlerMeta |-> handlerMeta, classMeta |-> classMeta,
                     role |-> role,
                     admitted |-> canActivate(handlerMeta, classMeta, role)]
    /\ UNCHANGED <<ledger, cache, wdVars, depVars, auxVars, stkVars, head, userRows, secrets,
                   nextSecret, recoveryCodes, sessions, refreshCalls, loginCalls, tfaCalls,
                   lastAccess>>

\* no account has logged in and nobody has set up 2FA
NoAuth ==
    /\ userRows = [u \in Accounts |-> [role |-> Role(u), twoFactorEnabled |-> FALSE]]
    /\ secrets = [u \in Accounts |-> NoSecret]
    /\ nextSecret = 1
    /\ recoveryCodes = [u \in Accounts |-> 0]
    /\ sessions = <<>>
    /\ refreshCalls = [c \in RefreshCallers |-> IdleRefresh]
    /\ loginCalls = [c \in LoginCallers |-> IdleLogin]
    /\ tfaCalls = [g \in TfaCallers |-> IdleTfa]
    /\ lastAccess = NoAccess
    /\ guardCall = NoGuardCall

\* ---------------------------------------------------- deposit specification

InitD ==
    /\ ledger = <<>>
    /\ cache = [u \in Users |-> EmptyCache]
    /\ requests = <<>>
    /\ payoutTx = [r \in ReqIds |-> NoPayoutTx]
    /\ whitelist = {}
    /\ calls = [c \in Callers |-> IdleCall]
    /\ approveTx = {}
    /\ payoutQueue = EmptyBag
    /\ worker = IdleWorker
    /\ broadcasts = <<>>
    /\ everApproved = {}
    /\ transfers = <<>>
    /\ deposits = <<>>
    /\ lastScanned = -1
    /\ monitors = [m \in Monitors |-> IdleMonitor]
    /\ confCall = IdleConfCall
    /\ RegisteredAddresses
    /\ CreatedPool
    /\ now = 0
    /\ pool = FlexiblePool
    /\ positions = <<>>
    /\ rewardJob = IdleRewardJob
    /\ stakeCalls = [c \in StakeCallers |-> IdleStakeCall]
    /\ unstakeResp = NoUnstake
    /\ NoAuth
    /\ head = 0

NextD ==
    \/ \E u \in Users, v \in TransferValues : ChainTransfer(u, v)
    \/ NewBlock(MaxHead)
    \/ \E m \in Monitors : M_Start(m)
    \/ \E m \in Monitors : M_Find(m)
    \/ \E m \in Monitors : M_Create(m)
    \/ \E m \in Monitors : M_SaveCursor(m)
    \/ \E m \in Monitors : M_ReadPending(m)
    \/ \E m \in Monitors : M_Confirm(m)
    \/ \E m \in Monitors : M_Finish(m)
    \/ \E d \in 1..MaxTransfers, n \in 1..MaxHead : UC_Read(d, n)
    \/ UC_Write

SpecD == InitD /\ [][NextD]_vars

\* one scanner at a time, with failing calls and outages of the scanner
NextE ==
    \/ \E u \in Users, v \in TransferValues : ChainTransfer(u, v)
    \/ NewBlock(MaxHead)
    \/ Outage
    \/ M_Start(1)
    \/ M_Find(1)
    \/ M_Create(1)
    \/ M_Throw(1)
    \/ M_SaveCursor(1)
    \/ M_ReadPending(1)
    \/ M_Confirm(1)
    \/ M_Finish(1)

SpecE == InitD /\ [][NextE]_vars

\* the funded state of the withdrawal specification: one Transfer of
\* InitialDeposit in block 1, recorded and confirmed
FundedTransfers == <<TransferLog("u1", InitialDeposit, 1)>>

FundedDeposits ==
    <<[event |-> 1, userId |-> "u1", amount |-> DepositAmount(InitialDeposit),
       status |-> "CONFIRMED", confirmations |-> Confirmations(FundedHead, 1)]>>

\* ------------------------------------------------- withdrawal specification

\* the database after one confirmed deposit of InitialDeposit per user
FundedLedger ==
    <<Entry("u1", "DEPOSIT_CONFIRMED", "CREDIT", InitialDeposit, "Deposit", 1)>>

FundedCache == [u \in Users |-> [EmptyCache EXCEPT !.exists = TRUE,
                                                   !.available = InitialDeposit]]

InitW ==
    /\ ledger = FundedLedger
    /\ cache = FundedCache
    /\ requests = <<>>
    /\ payoutTx = [r \in ReqIds |-> NoPayoutTx]
    /\ whitelist = {}
    /\ calls = [c \in Callers |-> IdleCall]
    /\ approveTx = {}
    /\ payoutQueue = EmptyBag
    /\ worker = IdleWorker
    /\ head = FundedHead
    /\ broadcasts = <<>>
    /\ everApproved = {}
    /\ transfers = FundedTransfers
    /\ deposits = FundedDeposits
    /\ lastScanned = FundedHead
    /\ monitors = [m \in Monitors |-> IdleMonitor]
    /\ confCall = IdleConfCall
    /\ RegisteredAddresses
    /\ CreatedPool
    /\ now = 0
    /\ pool = FlexiblePool
    /\ positions = <<>>
    /\ rewardJob = IdleRewardJob
    /\ stakeCalls = [c \in StakeCallers |-> IdleStakeCall]
    /\ unstakeResp = NoUnstake
    /\ NoAuth

NextW ==
    \/ \E c \in Callers, u \in Users, k \in Keys, a \in Amounts, d \in Dests :
           CreateRequestCheck(c, u, k, a, d)
    \/ \E c \in Callers : CreateRequestBegin(c)
    \/ \E c \in Callers : CreateRequestTx(c)
    \/ \E r \in ReqIds : ApproveBegin(r)
    \/ \E r \in ReqIds : ApproveCommit(r)
    \/ \E r \in ReqIds : ApproveAbort(r)
    \/ \E r \in ReqIds : ApproveRefused(r)
    \/ \E r \in ReqIds : RejectRequest(r)
    \/ \E r \in ReqIds : MarkPaidManually(r)
    \/ \E j \in BagToSet(payoutQueue) : PP_Start(j)
    \/ PP_MarkProcessing
    \/ PP_Broadcast
    \/ PP_RecordTx
    \/ PP_MarkSent
    \/ PP_Enqueue
    \/ PP_Throw
    \/ PP_Catch
    \/ \E j \in BagToSet(payoutQueue) : CK_Start(j)
    \/ CK_Apply
    \/ NewBlock(FundedHead + MaxBlocks)
    \/ \E h \in 1..Len(broadcasts), ok \in BOOLEAN : MineTx(h, ok, FundedHead + MaxBlocks)

SpecW == InitW /\ [][NextW]_vars

\* the payout worker: every job in the queue is delivered (at least once) and
\* a handler that started runs on to its end or to its catch block
FairW ==
    /\ SF_vars(\E j \in BagToSet(payoutQueue) : PP_Start(j))
    /\ SF_vars(\E j \in BagToSet(payoutQueue) : CK_Start(j))
    /\ WF_vars(PP_MarkProcessing)
    /\ WF_vars(PP_Broadcast \/ PP_Throw)
    /\ WF_vars(PP_RecordTx \/ PP_Throw)
    /\ WF_vars(PP_MarkSent \/ PP_Throw)
    /\ WF_vars(PP_Enqueue \/ PP_Throw)
    /\ WF_vars(PP_Catch)
    /\ WF_vars(CK_Apply)

LiveSpecW == SpecW /\ FairW

\* deposit address allocation by concurrent callers
NextH ==
    \/ \E c \in AddrCallers, u \in AddrUsers : AddrFindExisting(c, u)
    \/ \E c \in AddrCallers : AddrFindLast(c)
    \/ \E c \in AddrCallers : AddrCreate(c)

SpecH == InitW /\ [][NextH]_vars

\* two users submit withdrawals, each funded by one confirmed deposit
Submitters == {"u1", "u2"}

Submitter(i) == IF i = 1 THEN "u1" ELSE "u2"

\* the destination addresses they withdraw to
SubmitDests == {"d1", "d2"}

\* their createRequest calls
Submissions == 1..MaxSubmissions

InitI ==
    /\ ledger = [i \in 1..Cardinality(Submitters) |->
                    Entry(Submitter(i), "DEPOSIT_CONFIRMED", "CREDIT", InitialDeposit,
                          "Deposit", i)]
    /\ cache = [u \in Submitters |->
                   [EmptyCache EXCEPT !.exists = TRUE, !.available = InitialDeposit]]
    /\ requests = <<>>
    /\ payoutTx = [r \in ReqIds |-> NoPayoutTx]
    /\ whitelist = {}
    /\ calls = [c \in Submissions |-> IdleCall]
    /\ approveTx = {}
    /\ payoutQueue = EmptyBag
    /\ worker = IdleWorker
    /\ head = FundedHead
    /\ broadcasts = <<>>
    /\ everApproved = {}
    /\ transfers = [i \in 1..Cardinality(Submitters) |->
                       TransferLog(Submitter(i), InitialDeposit, 1)]
    /\ deposits = [i \in 1..Cardinality(Submitters) |->
                      [event |-> i, userId |-> Submitter(i),
                       amount |-> DepositAmount(InitialDeposit), status |-> "CONFIRMED",
                       confirmations |-> Confirmations(FundedHead, 1)]]
    /\ lastScanned = FundedHead
    /\ monitors = [m \in Monitors |-> IdleMonitor]
    /\ confCall = IdleConfCall
    /\ depositAddresses = [i \in 1..Cardinality(Submitters) |->
                              [userId |-> Submitter(i), derivationIndex |-> i - 1]]
    /\ addrCalls = [c \in AddrCallers |-> IdleAddrCall]
    /\ CreatedPool
    /\ now = 0
    /\ pool = FlexiblePool
    /\ positions = <<>>
    /\ rewardJob = IdleRewardJob
    /\ stakeCalls = [c \in StakeCallers |-> IdleStakeCall]
    /\ unstakeResp = NoUnstake
    /\ NoAuth

NextI ==
    \/ \E c \in Submissions, u \in Submitters, k \in Keys, a \in Amounts, d \in SubmitDests :
           CreateRequestCheck(c, u, k, a, d)
    \/ \E c \in Submissions : CreateRequestBegin(c)
    \/ \E c \in Submissions : CreateRequestTx(c)

SpecI == InitI /\ [][NextI]_vars

\* the withdrawal workflow with a payout worker that can die between steps
NextK ==
    \/ NextW
    \/ PP_Crash

SpecK == InitW /\ [][NextK]_vars

\* one withdrawal followed from its submission to the last attempt of its
\* checkPayoutStatus job: the chain grows by as many blocks as the job has attempts
TimeoutHead == FundedHead + CheckPayoutAttempts

NextT ==
    \/ \E a \in Amounts : CreateRequestCheck(1, "u1", "k1", a, "d1")
    \/ CreateRequestBegin(1)
    \/ CreateRequestTx(1)
    \/ ApproveBegin(1)
    \/ ApproveCommit(1)
    \/ \E j \in BagToSet(payoutQueue) : PP_Start(j)
    \/ PP_MarkProcessing
    \/ PP_Broadcast
    \/ PP_RecordTx
    \/ PP_MarkSent
    \/ PP_Enqueue
    \/ \E j \in BagToSet(payoutQueue) : CK_Start(j)
    \/ CK_Apply
    \/ NewBlock(TimeoutHead)
    \/ \E h \in 1..Len(broadcasts), ok \in BOOLEAN : MineTx(h, ok, TimeoutHead)

SpecT == InitW /\ [][NextT]_vars

\* every job is delivered, a handler that started runs on, and blocks keep coming
FairT ==
    /\ SF_vars(\E j \in BagToSet(payoutQueue) : PP_Start(j))
    /\ SF_vars(\E j \in BagToSet(payoutQueue) : CK_Start(j))
    /\ WF_vars(PP_MarkProcessing)
    /\ WF_vars(PP_Broadcast)
    /\ WF_vars(PP_RecordTx)
    /\ WF_vars(PP_MarkSent)
    /\ WF_vars(PP_Enqueue)
    /\ WF_vars(CK_Apply)
    /\ WF_vars(NewBlock(TimeoutHead))

LiveSpecT == SpecT /\ FairT

\* the withdrawal workflow together with LedgerService.reconcileBalance
NextR ==
    \/ NextW
    \/ \E u \in Users : ReconcileBalance(u)

SpecR == InitW /\ [][NextR]_vars

\* ---------------------------------------------------- staking specification

\* a funded user, and one pool as an admin configured it
InitS ==
    /\ ledger = FundedLedger
    /\ cache = FundedCache
    /\ requests = <<>>
    /\ payoutTx = [r \in ReqIds |-> NoPayoutTx]
    /\ whitelist = {}
    /\ calls = [c \in Callers |-> IdleCall]
    /\ approveTx = {}
    /\ payoutQueue = EmptyBag
    /\ worker = IdleWorker
    /\ broadcasts = <<>>
    /\ everApproved = {}
    /\ transfers = FundedTransfers
    /\ deposits = FundedDeposits
    /\ lastScanned = FundedHead
    /\ monitors = [m \in Monitors |-> IdleMonitor]
    /\ confCall = IdleConfCall
    /\ RegisteredAddresses
    /\ CreatedPool
    /\ head = FundedHead
    /\ now = 0
    /\ pool \in {PoolRow(c, l) : c \in {0, CooldownTicks}, l \in {0, LockTicks}}
    /\ positions = <<>>
    /\ rewardJob = IdleRewardJob
    /\ stakeCalls = [c \in StakeCallers |-> IdleStakeCall]
    /\ unstakeResp = NoUnstake
    /\ NoAuth

NextS ==
    \/ Tick
    \/ \E c \in StakeCallers, u \in Users, a \in StakeAmounts :
           CreateStakeBegin(c, u, a, MaxPositions)
    \/ \E c \in StakeCallers : CreateStake(c)
    \/ \E u \in Users, p \in 1..MaxPositions : Unstake(u, p)
    \/ \E u \in Users, p \in 1..MaxPositions : ClaimRewards(u, p)
    \/ CR_Start
    \/ CR_Accrue
    \/ PU_Read
    \/ PU_Finalize
    \/ CR_Finish

SpecS == InitS /\ [][NextS]_vars

\* the APR schedule of the pool over time
NextP ==
    \/ Tick
    \/ \E a \in Aprs, t \in 0..MaxTime : ScheduleAprChange(a, t)

SpecP == InitS /\ [][NextP]_vars

\* the reward-calculator job is repeatable and its worker runs every job to
\* the end
FairS ==
    /\ WF_vars(CR_Start)
    /\ WF_vars(CR_Accrue)
    /\ WF_vars(PU_Read)
    /\ WF_vars(PU_Finalize)
    /\ WF_vars(CR_Finish)

LiveSpecS == SpecS /\ FairS

\* createStake calls side by side with unstake, at a fixed time
NextC ==
    \/ \E c \in StakeCallers, u \in Users, a \in StakeAmounts :
           CreateStakeBegin(c, u, a, MaxStakes)
    \/ \E c \in StakeCallers : CreateStake(c)
    \/ \E u \in Users, p \in 1..MaxStakes : Unstake(u, p)

SpecC == InitS /\ [][NextC]_vars

\* ------------------------------------------- withdrawal workflow: properties

\* ------------------------------------------------- session specification

\* the database of the funded specifications, without the authentication rows
FundedRest ==
    /\ ledger = FundedLedger
    /\ cache = FundedCache
    /\ requests = <<>>
    /\ payoutTx = [r \in ReqIds |-> NoPayoutTx]
    /\ whitelist = {}
    /\ calls = [c \in Callers |-> IdleCall]
    /\ approveTx = {}
    /\ payoutQueue = EmptyBag
    /\ worker = IdleWorker
    /\ broadcasts = <<>>
    /\ everApproved = {}
    /\ transfers = FundedTransfers
    /\ deposits = FundedDeposits
    /\ lastScanned = FundedHead
    /\ monitors = [m \in Monitors |-> IdleMonitor]
    /\ confCall = IdleConfCall
    /\ RegisteredAddresses
    /\ CreatedPool
    /\ head = FundedHead
    /\ now = 0
    /\ pool = FlexiblePool
    /\ positions = <<>>
    /\ rewardJob = IdleRewardJob
    /\ stakeCalls = [c \in StakeCallers |-> IdleStakeCall]
    /\ unstakeResp = NoUnstake

\* the end user has logged in on two devices
InitA ==
    /\ FundedRest
    /\ userRows = [u \in Accounts |-> [role |-> Role(u), twoFactorEnabled |-> FALSE]]
    /\ secrets = [u \in Accounts |-> NoSecret]
    /\ nextSecret = 1
    /\ recoveryCodes = [u \in Accounts |-> 0]
    /\ sessions = <<SessionRow("u1", 0), SessionRow("u1", 0)>>
    /\ refreshCalls = [c \in RefreshCallers |-> IdleRefresh]
    /\ loginCalls = [c \in LoginCallers |-> IdleLogin]
    /\ tfaCalls = [g \in TfaCallers |-> IdleTfa]
    /\ lastAccess = NoAccess
    /\ guardCall = NoGuardCall

NextA ==
    \/ \E c \in RefreshCallers, t \in 1..MaxSessions : R_Validate(c, t)
    \/ \E c \in RefreshCallers : R_Revoke(c)
    \/ \E c \in RefreshCallers : R_Create(c)
    \/ \E s \in 1..MaxSessions : Logout(s)
    \/ \E s \in 1..MaxSessions : LogoutAll(s)
    \/ \E s, t \in 1..MaxSessions : DeleteSession(s, t)
    \/ \E s \in 1..MaxSessions : ExpireSession(s)
    \/ \E s \in 1..MaxSessions : AccessValidate(s)

SpecA == InitA /\ [][NextA]_vars

\* ------------------------------------------------------ roles specification

\* the declarations a handler or a class can carry: none, or one role
Metas == {NoRolesMeta} \cup {RolesMeta({r}) : r \in RoleNames}

InitG ==
    /\ FundedRest
    /\ NoAuth

NextG ==
    \/ \E route \in AdminRoutes, role \in RoleNames : AdminRequest(route, role)
    \/ \E h \in Metas, c \in Metas, role \in RoleNames \cup {NoUser} :
           GuardedRequest(h, c, role)

SpecG == InitG /\ [][NextG]_vars

\* ------------------------------------------------ two-factor specification

\* the end user is logged in without 2FA; the administrator either has 2FA
\* enabled (secret 1, verified) and is logged in, or has never enabled it
InitF ==
    /\ FundedRest
    /\ \E adminEnabled \in BOOLEAN :
          /\ userRows = [u \in Accounts |->
                [role |-> Role(u), twoFactorEnabled |-> (u = "a1" /\ adminEnabled)]]
          /\ secrets = [u \in Accounts |->
                IF u = "a1" /\ adminEnabled
                THEN [exists |-> TRUE, isVerified |-> TRUE, secret |-> 1] ELSE NoSecret]
          /\ nextSecret = IF adminEnabled THEN 2 ELSE 1
          /\ recoveryCodes = [u \in Accounts |->
                IF u = "a1" /\ adminEnabled THEN RecoveryCodeCount ELSE 0]
          /\ sessions = IF adminEnabled THEN <<SessionRow("u1", 0), SessionRow("a1", 0)>>
                        ELSE <<SessionRow("u1", 0)>>
    /\ refreshCalls = [c \in RefreshCallers |-> IdleRefresh]
    /\ loginCalls = [c \in LoginCallers |-> IdleLogin]
    /\ tfaCalls = [g \in TfaCallers |-> IdleTfa]
    /\ lastAccess = NoAccess
    /\ guardCall = NoGuardCall

NextF ==
    \/ \E c \in LoginCallers, u \in Accounts, pw \in BOOLEAN, totp \in Totps :
           L_Read(c, u, pw, totp)
    \/ \E c \in LoginCallers : L_Finish(c)
    \/ \E g \in TfaCallers, u \in Accounts : G_Read(g, u)
    \/ \E g \in TfaCallers : G_Upsert(g)
    \/ \E g \in TfaCallers, u \in Accounts, token \in Totps : V_Read(g, u, token)
    \/ \E g \in TfaCallers : V_Commit(g)
    \/ \E g \in TfaCallers, u \in Accounts, token \in Totps : D_Read(g, u, token)
    \/ \E g \in TfaCallers : D_Commit(g)
    \/ \E s \in 1..MaxSessions : Logout(s)

SpecF == InitF /\ [][NextF]_vars


\* ledger entries of one type that reference WithdrawalRequest r
RequestEntries(type, r) ==
    {i \in 1..Len(ledger) : /\ ledger[i].entryType = type
                            /\ ledger[i].referenceType = "WithdrawalRequest"
                            /\ ledger[i].referenceId = r}

\* C1: a payout is broadcast for request r only if approveRequest moved r to
\* APPROVED beforehand, and only the payout worker (in processPayout, past its
\* status check) ever broadcasts: no createRequest step and no admin step does.
C1_PayoutOnlyAfterApproval ==
    /\ [](\A i \in 1..Len(broadcasts) : broadcasts[i].req \in everApproved)
    /\ [][Len(broadcasts') > Len(broadcasts) =>
            /\ worker.pc = "pp_processing"
            /\ worker.req \in everApproved
            /\ calls' = calls
            /\ approveTx' = approveTx]_vars

\* C1 witness: a request approved by an admin has been paid out on chain and
\* its row has reached SENT
C1_Witness ==
    \E i \in 1..Len(broadcasts) :
        /\ broadcasts[i].req \in everApproved
        /\ requests[broadcasts[i].req].status = "SENT"

\* the edges of the withdrawal state machine; the passage through CONFIRMED is
\* also accepted when it is collapsed into CONFIRMING -> COMPLETED
WithdrawalEdges ==
    {<<"PENDING_REVIEW", "APPROVED">>, <<"PENDING_REVIEW", "REJECTED">>,
     <<"PENDING_REVIEW", "PAID_MANUALLY">>, <<"APPROVED", "PROCESSING">>,
     <<"APPROVED", "PAID_MANUALLY">>, <<"PROCESSING", "SENT">>,
     <<"PROCESSING", "FAILED">>, <<"SENT", "CONFIRMING">>, <<"SENT", "FAILED">>,
     <<"CONFIRMING", "CONFIRMED">>, <<"CONFIRMED", "COMPLETED">>,
     <<"CONFIRMING", "COMPLETED">>, <<"CONFIRMING", "FAILED">>,
     <<"FAILED", "PROCESSING">>, <<"FAILED", "PAID_MANUALLY">>}

\* C2: every change of a WithdrawalRequest's status follows an edge of the
\* withdrawal state machine (so a terminal status is never left).
C2_StatusFollowsEdges ==
    [][\A r \in 1..Len(requests) :
          requests'[r].status # requests[r].status =>
              <<requests[r].status, requests'[r].status>> \in WithdrawalEdges]_vars

\* C3: every request has exactly one WITHDRAWAL_REQUESTED entry; REJECTED has
\* exactly one WITHDRAWAL_REJECTED and no WITHDRAWAL_PAID; COMPLETED and
\* PAID_MANUALLY have exactly one WITHDRAWAL_PAID and no WITHDRAWAL_REJECTED;
\* a request in any other status has neither.
C3_LedgerEntriesPerRequest ==
    \A r \in 1..Len(requests) :
        LET requested == Cardinality(RequestEntries("WITHDRAWAL_REQUESTED", r))
            rejected == Cardinality(RequestEntries("WITHDRAWAL_REJECTED", r))
            paid == Cardinality(RequestEntries("WITHDRAWAL_PAID", r))
            st == requests[r].status
        IN  /\ requested = 1
            /\ IF st = "REJECTED" THEN rejected = 1 /\ paid = 0
               ELSE IF st \in {"COMPLETED", "PAID_MANUALLY"} THEN paid = 1 /\ rejected = 0
               ELSE rejected = 0 /\ paid = 0

\* a finished createRequest call that returned a WithdrawalRequest
Returned(c) == calls[c].pc = "done" /\ calls[c].resp.kind = "ok"

\* C9: two submissions in sequence with the same idempotencyKey leave one row
\* and one WITHDRAWAL_REQUESTED debit, and both receive the same response (the
\* row being compared while nobody has touched it since).
C9_SequentialIdempotent ==
    \A c1, c2 \in Callers :
        ( /\ c1 < c2
          /\ Returned(c1) /\ Returned(c2)
          /\ calls[c1].key = calls[c2].key
          /\ requests[calls[c1].resp.id].status = "PENDING_REVIEW" )
        => /\ Cardinality(FindByKey(calls[c1].key)) = 1
           /\ Cardinality(RequestEntries("WITHDRAWAL_REQUESTED", calls[c1].resp.id)) = 1
           /\ calls[c2].resp = calls[c1].resp

\* a finished createRequest call that got past the idempotency lookup and the
\* validation and ran its transaction
RanTransaction(c) ==
    /\ calls[c].pc = "done"
    /\ IF calls[c].resp.kind = "ok" THEN calls[c].resp.message
       ELSE calls[c].resp.code # "AMOUNT_TOO_SMALL"

\* C10: when two submissions with the same idempotencyKey both pass the lookup
\* before either commits, one row exists, funds are reserved once, and the
\* caller that lost the insert is returned the same request as the winner.
C10_ConcurrentIdempotent ==
    \A c1, c2 \in Callers :
        ( /\ c1 # c2
          /\ Returned(c1) /\ calls[c1].resp.message
          /\ RanTransaction(c2)
          /\ calls[c1].key = calls[c2].key )
        => /\ Cardinality(FindByKey(calls[c1].key)) = 1
           /\ Cardinality(RequestEntries("WITHDRAWAL_REQUESTED", calls[c1].resp.id)) = 1
           /\ Returned(c2)
           /\ calls[c2].resp.id = calls[c1].resp.id

\* -------------------------------------------- deposit pipeline: properties

\* DEPOSIT_CONFIRMED ledger entries that reference Deposit d
DepositEntries(d) ==
    {i \in 1..Len(ledger) : /\ ledger[i].entryType = "DEPOSIT_CONFIRMED"
                            /\ ledger[i].referenceType = "Deposit"
                            /\ ledger[i].referenceId = d}

\* block of the Transfer that Deposit d records
DepositBlock(d) == transfers[deposits[d].event].block

RECURSIVE ConfirmedTotal(_, _)
\* sum of the amounts of the CONFIRMED deposits of user u among the first n rows
ConfirmedTotal(u, n) ==
    IF n = 0 THEN 0
    ELSE (IF deposits[n].userId = u /\ deposits[n].status = "CONFIRMED"
          THEN deposits[n].amount ELSE 0) + ConfirmedTotal(u, n - 1)

\* C6: no ledger entry has an amount <= 0, whoever wrote it (createEntry, the
\* deposit monitor, the reward calculator, withdrawal finalization).
C6_LedgerAmountsPositive ==
    \A i \in 1..Len(ledger) : ledger[i].amount > 0

\* C7: every CONFIRMED deposit has exactly one DEPOSIT_CONFIRMED entry and was
\* added to available exactly once, also when several confirmation passes
\* handle it side by side.
C7_DepositCreditedOnce ==
    /\ \A d \in 1..Len(deposits) :
           deposits[d].status = "CONFIRMED" => Cardinality(DepositEntries(d)) = 1
    /\ \A u \in Users : cache[u].available = ConfirmedTotal(u, Len(deposits))

Buckets(c) ==
    [available |-> c.available, staked |-> c.staked,
     rewardsAccrued |-> c.rewardsAccrued, withdrawalsPending |-> c.withdrawalsPending]

\* C4: replaying the ledger of a user from empty gives exactly the four buckets
\* stored in the user's BalanceCache.
C4_ReplayEqualsCache ==
    \A u \in Users :
        calculateBalanceFromLedger(ledger, u, Len(ledger)) = Buckets(cache[u])

\* C5: every bucket of every BalanceCache row is non-negative.
C5_BucketsNonNegative ==
    \A u \in Users :
        /\ cache[u].available >= 0
        /\ cache[u].staked >= 0
        /\ cache[u].rewardsAccrued >= 0
        /\ cache[u].withdrawalsPending >= 0

\* C11: two concurrent withdrawal submissions of one user with different
\* idempotency keys whose amounts together exceed the available balance do not
\* both succeed: a submission is accepted only when its amount is covered by
\* the available balance at the moment it commits, it lowers available by
\* exactly its amount, and available is never negative.
C11_NoConcurrentOverdraw ==
    /\ [](\A u \in Users : cache[u].available >= 0)
    /\ [][Len(requests') > Len(requests) =>
            LET row == requests'[Len(requests')]
            IN  /\ row.amount <= cache[row.userId].available
                /\ cache'[row.userId].available =
                       cache[row.userId].available - row.amount]_vars

\* two submissions with different keys overlapped; together they asked for more
\* than was available; one was accepted and the other failed
C11_Witness ==
    \E c1, c2 \in Callers :
        /\ c1 # c2
        /\ calls[c1].key # calls[c2].key
        /\ Returned(c1) /\ calls[c1].resp.message
        /\ calls[c1].resp.row.amount = 3
        /\ calls[c2].pc = "done"
        /\ calls[c2].resp = ErrorResp("SERIALIZATION_FAILURE")
        /\ cache[calls[c1].userId].available = InitialDeposit - 3

\* C12: two concurrent createStake calls into the same pool whose amounts
\* together would push totalStaked above totalCapacity do not both succeed: a
\* stake is accepted only when it fits into the capacity left at the moment it
\* commits, and pool.totalStaked never exceeds pool.totalCapacity.
C12_CapacityNeverExceeded ==
    /\ [](pool.totalStaked <= pool.totalCapacity)
    /\ [][Len(positions') > Len(positions) =>
            LET stake == positions'[Len(positions')]
            IN  /\ stake.amount <= pool.totalCapacity - pool.totalStaked
                /\ pool'.totalStaked = pool.totalStaked + stake.amount]_vars

\* two createStake calls overlapped, together they exceed the capacity; one
\* was accepted and the other failed
C12_Witness ==
    \E c1, c2 \in StakeCallers :
        /\ stakeCalls[c1].pc = "done" /\ stakeCalls[c1].resp = "ok"
        /\ stakeCalls[c2].pc = "done" /\ stakeCalls[c2].resp = "SERIALIZATION_FAILURE"
        /\ stakeCalls[c1].amount + stakeCalls[c2].amount > pool.totalCapacity
        /\ pool.totalStaked = stakeCalls[c1].amount

\* C13: when two refresh calls presenting the same valid refresh token run
\* concurrently, at most one of them returns a new token pair; the other is
\* rejected.
C13_OneRefreshPerToken ==
    \A c1, c2 \in RefreshCallers :
        (c1 # c2 /\ refreshCalls[c1].token = refreshCalls[c2].token)
            => ~(refreshCalls[c1].resp = "ok" /\ refreshCalls[c2].resp = "ok")

\* C14: a revoked session stays revoked; a refresh passes validation and an
\* access token is accepted only while the session is not revoked; a successful
\* refresh leaves the presented session revoked and, of the sessions rotated
\* from it, exactly the one it created usable.
C14_RevocationIsPermanent ==
    [][/\ \A s \in 1..Len(sessions) : sessions[s].isRevoked => sessions'[s].isRevoked
       /\ \A c \in RefreshCallers :
             (refreshCalls[c].pc = "idle" /\ refreshCalls'[c].pc = "validated")
                 => ~sessions[refreshCalls'[c].token].isRevoked
       /\ (lastAccess' # lastAccess /\ lastAccess'.ok)
             => (lastAccess'.session \in 1..Len(sessions)
                 /\ ~sessions[lastAccess'.session].isRevoked)
       /\ \A c \in RefreshCallers :
             (refreshCalls[c].resp # "ok" /\ refreshCalls'[c].resp = "ok")
                 => /\ sessions'[refreshCalls'[c].token].isRevoked
                    /\ {s \in 1..Len(sessions') :
                            /\ sessions'[s].rotatedFrom = refreshCalls'[c].token
                            /\ validate(sessions', s)}
                         = {refreshCalls'[c].session}
      ]_vars

\* C15: a login with a correct password for a user whose twoFactorEnabled is
\* true (in the row the login read) issues tokens only when the request
\* carries a code that verifies against the user's verified secret.
C15_LoginNeedsSecondFactor ==
    [][\A c \in LoginCallers :
          (loginCalls[c].pc = "read" /\ loginCalls'[c].resp = "ok"
              /\ loginCalls[c].twoFactorEnabled)
              => verifyToken(secrets, loginCalls[c].userId, loginCalls[c].totp)
      ]_vars

C17_MarkPaidManuallySucceeds ==
    \A r \in 1..Len(requests) :
        r \notin approveTx =>
            IF requests[r].status \in {"PENDING_REVIEW", "APPROVED", "FAILED"}
            THEN ENABLED (/\ MarkPaidManually(r)
                          /\ requests'[r].status = "PAID_MANUALLY"
                          /\ Len(ledger') = Len(ledger) + 1
                          /\ ledger'[Len(ledger')].entryType = "WITHDRAWAL_PAID"
                          /\ ledger'[Len(ledger')].direction = "DEBIT"
                          /\ ledger'[Len(ledger')].referenceId = r
                          /\ cache'[requests[r].userId].withdrawalsPending
                               = cache[requests[r].userId].withdrawalsPending
                                   - requests[r].amount)
            ELSE ~ENABLED (/\ MarkPaidManually(r)
                           /\ <<requests', ledger', cache'>> # <<requests, ledger, cache>>)

\* the amounts of u's requests whose reserve has not been released by a reject
RECURSIVE ReservedBy(_, _, _)
ReservedBy(reqs, u, n) ==
    IF n = 0 THEN 0
    ELSE ReservedBy(reqs, u, n - 1)
         + (IF reqs[n].userId = u /\ reqs[n].status # "REJECTED"
            THEN reqs[n].amount ELSE 0)

\* C18: submitting a withdrawal and rejecting it is a round trip on balances:
\* available is always the funded amount less the requests not rejected; the
\* submission moves the amount from available to withdrawalsPending; a request
\* becomes REJECTED only from PENDING_REVIEW, in a step that posts one
\* WITHDRAWAL_REJECTED credit and moves the amount back.
C18_RejectIsRoundTrip ==
    /\ [](\A u \in Users :
            cache[u].available
              = FundedCache[u].available - ReservedBy(requests, u, Len(requests)))
    /\ [][/\ Len(requests') = Len(requests) + 1 =>
               LET r == requests'[Len(requests')]
               IN  cache' = [cache EXCEPT ![r.userId] =
                        [@ EXCEPT !.available = @ - r.amount,
                                  !.withdrawalsPending = @ + r.amount]]
          /\ \A r \in 1..Len(requests) :
               (requests[r].status # "REJECTED" /\ requests'[r].status = "REJECTED")
                 => /\ requests[r].status = "PENDING_REVIEW"
                    /\ ledger' = Append(ledger,
                          Entry(requests[r].userId, "WITHDRAWAL_REJECTED", "CREDIT",
                                requests[r].amount, "WithdrawalRequest", r))
                    /\ cache' = [cache EXCEPT ![requests[r].userId] =
                          [@ EXCEPT !.available = @ + requests[r].amount,
                                    !.withdrawalsPending = @ - requests[r].amount]]
         ]_vars

\* a submitted request was rejected and the balances are the funded ones again
C18_Witness ==
    /\ Len(requests) = 1
    /\ requests[1].status = "REJECTED"
    /\ cache[requests[1].userId] = FundedCache[requests[1].userId]
    /\ \E i \in 1..Len(ledger) :
          /\ ledger[i].entryType = "WITHDRAWAL_REJECTED"
          /\ ledger[i].referenceId = 1
          /\ ledger[i].amount = requests[1].amount

C20_NoFundsBeforeCooldownEnds ==
    /\ [](\A p \in 1..Len(positions) :
            (pool.cooldown > 0
               /\ (\/ positions[p].status = "COMPLETED"
                   \/ \E i \in 1..Len(ledger) :
                         /\ ledger[i].entryType = "UNSTAKE_COMPLETED"
                         /\ ledger[i].referenceId = p))
              => (positions[p].cooldownEndsAt # NoTime
                    /\ now >= positions[p].cooldownEndsAt))
    /\ [][\A u \in Users, p \in 1..Len(positions) :
            (/\ Unstake(u, p)
             /\ pool.cooldown > 0
             /\ positions[p].userId = u
             /\ positions[p].status = "ACTIVE"
             /\ ~IsLocked(positions[p].lockedUntil, now))
              => /\ positions' = [positions EXCEPT
                        ![p].status = "UNSTAKING",
                        ![p].cooldownEndsAt = now + pool.cooldown]
                 /\ unstakeResp' = [stake |-> p, resp |-> "UNSTAKING"]
                 /\ UNCHANGED <<ledger, cache, pool>>
         ]_vars

\* a position that went through its cooldown was completed by the sweep
C20_Witness ==
    /\ pool.cooldown > 0
    /\ unstakeResp.resp = "UNSTAKING"
    /\ positions[unstakeResp.stake].status = "COMPLETED"
    /\ now >= positions[unstakeResp.stake].cooldownEndsAt
    /\ \E i \in 1..Len(ledger) :
          /\ ledger[i].entryType = "UNSTAKE_COMPLETED"
          /\ ledger[i].referenceId = unstakeResp.stake

\* C21: an UNSTAKING position whose cooldown has ended is eventually COMPLETED
\* while the reward worker keeps running; the finalizing step credits available
\* with the principal plus the position's rewards up to the job's now, which
\* include at least the rewards of the whole cooldown period, and posts that
\* amount as one UNSTAKE_COMPLETED credit.
C21_UnstakingEventuallyFinalized ==
    /\ \A p \in 1..MaxPositions :
          (/\ p <= Len(positions)
           /\ positions[p].status = "UNSTAKING"
           /\ positions[p].cooldownEndsAt <= now)
            ~> (p <= Len(positions) /\ positions[p].status = "COMPLETED")
    /\ [][\A p \in 1..Len(positions) :
            (positions[p].status = "UNSTAKING" /\ positions'[p].status = "COMPLETED")
              => LET stake == positions[p]
                     credited == cache'[stake.userId].available
                                   - cache[stake.userId].available
                 IN  /\ positions'[p].rewardsAccrued
                          = stake.rewardsAccrued
                              + Rewards(stake.amount,
                                        rewardJob.now - stake.lastRewardCalculation)
                     /\ credited = stake.amount + positions'[p].rewardsAccrued
                     /\ credited >= stake.amount
                                      + Rewards(stake.amount,
                                                rewardJob.now
                                                  - (stake.cooldownEndsAt - pool.cooldown))
                     /\ rewardJob.now >= stake.cooldownEndsAt
                     /\ ledger' = Append(ledger,
                           Entry(stake.userId, "UNSTAKE_COMPLETED", "CREDIT", credited,
                                 "StakePosition", p))
         ]_vars

\* the sweep completed a position after its cooldown and paid the rewards of
\* the cooldown period with the principal
C21_Witness ==
    /\ Len(positions) >= 1
    /\ positions[1].status = "COMPLETED"
    /\ positions[1].cooldownEndsAt # NoTime
    /\ positions[1].rewardsAccrued >= Rewards(positions[1].amount, pool.cooldown)
    /\ \E i \in 1..Len(ledger) :
          /\ ledger[i].entryType = "UNSTAKE_COMPLETED"
          /\ ledger[i].referenceId = 1
          /\ ledger[i].amount = positions[1].amount + positions[1].rewardsAccrued

\* C22: every WithdrawalRequest the submission endpoint returns carries status
\* PENDING_REVIEW, also when it answers a repeated idempotencyKey, and no step
\* of a createRequest call enqueues a payout job, broadcasts or writes a
\* PayoutTx.
C22_SubmissionReturnsPendingReview ==
    /\ [](\A c \in Callers : Returned(c) => calls[c].resp.row.status = "PENDING_REVIEW")
    /\ [][calls' # calls => UNCHANGED <<payoutQueue, broadcasts, payoutTx>>]_vars

\* C23: a request that is APPROVED is eventually PROCESSING or PAID_MANUALLY,
\* the payout worker being served every job of its queue.
C23_ApprovedEventuallyProcessed ==
    \A r \in ReqIds :
        (Exists(r) /\ requests[r].status = "APPROVED")
          ~> (Exists(r) /\ requests[r].status \in {"PROCESSING", "PAID_MANUALLY"})

\* C24: for every user, the credits minus the debits of the user's ledger
\* entries equal available + staked + withdrawalsPending of the BalanceCache.
C24_LedgerBalanceEqualsBuckets ==
    \A u \in Users :
        calculateBalance(ledger, u)
          = cache[u].available + cache[u].staked + cache[u].withdrawalsPending

\* the amounts of u's requests that are in none of the terminal statuses
RECURSIVE NonTerminalTotal(_, _, _)
NonTerminalTotal(reqs, u, n) ==
    IF n = 0 THEN 0
    ELSE NonTerminalTotal(reqs, u, n - 1)
         + (IF /\ reqs[n].userId = u
               /\ reqs[n].status \notin {"REJECTED", "COMPLETED", "PAID_MANUALLY"}
            THEN reqs[n].amount ELSE 0)

\* C25: withdrawalsPending of a user equals the sum of the amounts of the
\* user's requests that are not REJECTED, COMPLETED or PAID_MANUALLY.
C25_PendingEqualsNonTerminal ==
    \A u \in Users :
        cache[u].withdrawalsPending = NonTerminalTotal(requests, u, Len(requests))

\* the least index in ROLE_HIERARCHY among the declared roles
MinRoleIndex(roles) ==
    CHOOSE i \in 0..(Len(ROLE_HIERARCHY) - 1) :
        /\ \E r \in roles : indexOf(r) = i
        /\ \A r \in roles : indexOf(r) >= i

\* C26: with USER < SUPPORT < ADMIN < SUPER_ADMIN, a caller is admitted exactly
\* when its role index is at least the least index of the roles in force, the
\* handler's declaration overriding the class's; every admin route refuses USER
\* and SUPPORT, and the routes creating a treasury wallet, a chain or an asset
\* refuse every role below SUPER_ADMIN.
C26_RolesGuardHierarchy ==
    /\ indexOf("USER") < indexOf("SUPPORT")
    /\ indexOf("SUPPORT") < indexOf("ADMIN")
    /\ indexOf("ADMIN") < indexOf("SUPER_ADMIN")
    /\ (guardCall.role \in RoleNames /\ (guardCall.handlerMeta.defined \/ guardCall.classMeta.defined))
         => LET inForce == IF guardCall.handlerMeta.defined
                             THEN guardCall.handlerMeta.roles
                             ELSE guardCall.classMeta.roles
            IN  guardCall.admitted <=> indexOf(guardCall.role) >= MinRoleIndex(inForce)
    /\ guardCall.route \in AdminRoutes
         => (guardCall.admitted => guardCall.role \in {"ADMIN", "SUPER_ADMIN"})
    /\ guardCall.route \in SuperAdminRoutes
         => (guardCall.admitted <=> guardCall.role = "SUPER_ADMIN")

\* an ADMIN was refused on the route that creates a treasury wallet
C26_Witness ==
    /\ guardCall.route = "POST treasury"
    /\ guardCall.role = "ADMIN"
    /\ ~guardCall.admitted

\* C27: scanner passes over overlapping block ranges, one after the other or
\* side by side, leave what one pass over the union leaves: never two Deposit
\* rows for one Transfer log, and, once every pass has returned, exactly one
\* row for every Transfer log in the blocks up to the cursor.
C27_ScanIdempotent ==
    /\ \A e \in 1..Len(transfers) : Cardinality(FindDeposit(e)) <= 1
    /\ (\A m \in Monitors : monitors[m].pc = "idle")
         => \A e \in 1..Len(transfers) :
               transfers[e].block <= lastScanned => Cardinality(FindDeposit(e)) = 1

\* the transfers the payout worker has broadcast for request r
BroadcastsOf(r) == {h \in 1..Len(broadcasts) : broadcasts[h].req = r}

CheckExhausted(r) ==
    /\ worker.pc = "idle"
    /\ \A j \in BagToSet(payoutQueue) :
          ~(j.name = "checkPayoutStatus" /\ j.ref = payoutTx[r].txHash)

\* C29: a request in SENT or CONFIRMING whose checkPayoutStatus job has used
\* up its 20 attempts ends in FAILED.
C29_ExhaustedCheckEndsFailed ==
    \A r \in ReqIds :
        (/\ r <= Len(requests)
         /\ requests[r].status \in {"SENT", "CONFIRMING"}
         /\ CheckExhausted(r))
        ~> (r <= Len(requests) /\ requests[r].status = "FAILED")

\* C30: the rewards a position has accrued plus those it has claimed never
\* exceed amount * rate * (time elapsed since the stake was created), also
\* when the accrual worker interleaves with claimRewards or unstake.
C30_RewardsAtMostOncePerInterval ==
    \A p \in 1..Len(positions) :
        positions[p].rewardsAccrued + positions[p].rewardsClaimed
            <= Rewards(positions[p].amount, now - positions[p].createdAt)

\* C31: whichever path completes a position (StakesService.unstake without
\* cooldown, or the worker's sweep after the cooldown), the step decrements
\* pool.totalStaked by the principal, posts one UNSTAKE_COMPLETED credit of
\* principal + total rewards, and moves the projection by staked -= principal,
\* available += principal + total rewards, rewardsAccrued -= the position's
\* prior rewardsAccrued.
C31_UnstakePathsSameEffect ==
    [][\A p \in 1..Len(positions) :
          (positions[p].status # "COMPLETED" /\ positions'[p].status = "COMPLETED")
            => LET stake == positions[p]
                   u == stake.userId
                   totalAmount == stake.amount + positions'[p].rewardsAccrued
               IN  /\ pool'.totalStaked = pool.totalStaked - stake.amount
                   /\ ledger' = Append(ledger,
                         Entry(u, "UNSTAKE_COMPLETED", "CREDIT", totalAmount,
                               "StakePosition", p))
                   /\ cache'[u].staked = cache[u].staked - stake.amount
                   /\ cache'[u].available = cache[u].available + totalAmount
                   /\ cache'[u].rewardsAccrued
                        = cache[u].rewardsAccrued - stake.rewardsAccrued
     ]_vars

\* C32: a claim is taken only on an ACTIVE position; after a claim of c on the
\* user's only position the position's rewardsAccrued is 0 and rewardsClaimed
\* grew by c, one REWARD_CLAIMED credit of c is posted, BalanceCache.available
\* grew by c and BalanceCache.rewardsAccrued is 0.
C32_ClaimSettlesAccrued ==
    [][\A p \in 1..Len(positions) :
          positions'[p].rewardsClaimed # positions[p].rewardsClaimed
            => LET stake == positions[p]
                   u == stake.userId
                   c == positions'[p].rewardsClaimed - stake.rewardsClaimed
               IN  /\ stake.status = "ACTIVE"
                   /\ c > 0
                   /\ positions'[p].rewardsAccrued = 0
                   /\ ledger' = Append(ledger,
                         Entry(u, "REWARD_CLAIMED", "CREDIT", c, "StakePosition", p))
                   /\ cache'[u].available = cache[u].available + c
                   /\ Len(positions) = 1 => cache'[u].rewardsAccrued = 0
     ]_vars

\* the entry types that record a one-shot transition
OneShotTypes ==
    {"DEPOSIT_CONFIRMED", "WITHDRAWAL_REQUESTED", "WITHDRAWAL_REJECTED", "WITHDRAWAL_PAID",
     "STAKE_CREATED", "UNSTAKE_COMPLETED", "REWARD_CLAIMED"}

\* C33: no two ledger entries of a one-shot entry type share the same
\* (entryType, referenceType, referenceId).
C33_OneShotTripleUnique ==
    \A i, j \in 1..Len(ledger) :
        (/\ i # j
         /\ ledger[i].entryType \in OneShotTypes
         /\ ledger[i].entryType = ledger[j].entryType
         /\ ledger[i].referenceType = ledger[j].referenceType)
          => ledger[i].referenceId # ledger[j].referenceId

\* C34: no two DepositAddress rows of the chain have the same derivationIndex,
\* the indices grow strictly in the order the rows were inserted, and the
\* getOrCreateDepositAddress calls of one user all return the same single row.
C34_AddressAllocationSafe ==
    /\ \A i, j \in 1..Len(depositAddresses) :
          i < j => depositAddresses[i].derivationIndex < depositAddresses[j].derivationIndex
    /\ \A c, d \in AddrCallers :
          (/\ addrCalls[c].pc = "done"
           /\ addrCalls[d].pc = "done"
           /\ addrCalls[c].userId = addrCalls[d].userId)
            => /\ ~addrCalls[c].threw
               /\ addrCalls[c].row = addrCalls[d].row
               /\ FindAddress(addrCalls[c].userId) = {addrCalls[c].row}

\* C35: every Transfer to a deposit address in a block up to lastScannedBlock
\* has a Deposit row, also when a call of the scanning loop fails partway
\* through a pass or the scanner has fallen more than 10,000 blocks behind.
C35_CursorCoversRecordedTransfers ==
    \A e \in 1..Len(transfers) :
        transfers[e].block <= lastScanned => FindDeposit(e) # {}

\* C36: at any instant at most one AprSchedule row of the pool is active, and
\* once a scheduled change has taken effect pool.currentApr equals the APR
\* getEffectiveApr returns.
C36_OneActiveSchedule ==
    /\ Cardinality(ActiveSchedules(now)) <= 1
    /\ getEffectiveApr(now) = {poolApr}

\* a checkPayoutStatus job for a transfer broadcast for request r is queued
CheckScheduled(q, r) ==
    \E j \in BagToSet(q) : j.name = "checkPayoutStatus" /\ j.ref \in BroadcastsOf(r)

\* C37: when processPayout marks a request FAILED, no transfer was broadcast
\* for it, or at least a checkPayoutStatus job for the transfer is scheduled.
C37_FailedOnlyBeforeBroadcast ==
    [][\A r \in 1..Len(requests) :
          (/\ worker.pc = "pp_catch"
           /\ requests[r].status # "FAILED"
           /\ requests'[r].status = "FAILED")
            => (BroadcastsOf(r) = {} \/ CheckScheduled(payoutQueue', r))
     ]_vars

\* C38: user.twoFactorEnabled is true exactly when the user has a
\* TwoFactorSecret row with isVerified = true, under any interleaving of
\* generateSecret, verifyAndEnable and disable.
C38_EnabledIffVerifiedSecret ==
    \A u \in Accounts :
        userRows[u].twoFactorEnabled <=> (secrets[u].exists /\ secrets[u].isVerified)

\* C39: a createRequest call that returns a WithdrawalRequest returns one owned
\* by its caller, also when the idempotencyKey was used before by another user.
C39_ReturnsOwnRequestOnly ==
    \A c \in DOMAIN calls :
        (calls[c].pc = "done" /\ calls[c].resp.kind = "ok")
          => calls[c].resp.row.userId = calls[c].userId

\* C40: a createRequest call that ends in an error leaves the ledger, the
\* BalanceCache, the WithdrawalRequest rows and the AddressWhitelist as they were,
\* and the first request created for a user and destination carries the
\* NEW_ADDRESS score of a first-time address.
C40_FailedSubmissionChangesNothing ==
    /\ [][\A c \in DOMAIN calls :
             (calls[c].pc = "open" /\ calls'[c].pc = "done" /\ calls'[c].resp.kind = "error")
               => /\ whitelist' = whitelist
                  /\ ledger' = ledger
                  /\ cache' = cache
                  /\ requests' = requests]_vars
    /\ [](\A r \in 1..Len(requests) :
             (\A q \in 1..(r - 1) :
                 \/ requests[q].userId # requests[r].userId
                 \/ requests[q].destinationAddress # requests[r].destinationAddress)
               => requests[r].fraudScore = NewAddressScore)
====
